---------------------------- MODULE Spec2Model ----------------------------
(***************************************************************************)
(* A model of the JazzArchitect harmony pipeline: pitch classes and chord  *)
(* symbols, the guide-tone voice-leading cost, the three substitution      *)
(* transforms, the voice-leading optimizer, the PCFG and its style         *)
(* parameterisation, the derivation engine and StyleEngine::generate.      *)
(*                                                                         *)
(* Floats are modelled in fixed point: a style field is an integer number  *)
(* of hundredths, a rule weight an integer number of 1/Scale.  Costs are   *)
(* whole numbers held in floats in the source and are integers here.       *)
(* A draw from a std::mt19937 seeded from std::random_device is a          *)
(* nondeterministic choice; a draw from the grammar's seedable generator   *)
(* is a function of that generator's state.                                *)
(***************************************************************************)
EXTENDS Integers, Sequences, FiniteSets, TLC

VARIABLES
    pc,        \* position of the operation in progress / last operation done
    input,     \* the progression handed to the operation
    chords,    \* the progression being built / returned
    gate,      \* outcomes of the probability gate, one per position
    cost,      \* last pairwise cost computed
    iters,     \* maxIterations handed to the optimizer
    style,     \* StyleEngine::style_
    weights,   \* the rule weights of StyleEngine::grammar_ (rule objects are
               \* shared with the generator's copy of the grammar)
    grammarRng,    \* state of StyleEngine::grammar_.rng_
    generatorRng,  \* state of generator_->grammar_.rng_ (a copy)
    seed,      \* last seed given to getGrammar().setSeed, or NoSeed
    length,    \* generate's length argument
    key,       \* generate's key argument
    maxDepth,  \* generator_->config_.maxDepth
    stack,     \* pending calls of derive, leftmost first
    substituted,   \* generate's chords as SubstitutionEngine::apply left them
    leaves,    \* the <<terminal, key>> pairs of the derivation's leaves, in
               \* the order getTerminals returns them
    staticRng, \* the states of the function-local static generators, one
               \* per function; every engine of the process uses the same
    peer,      \* a second StyleEngine of the same process
    solo,      \* the first engine as it would be had the second never run
    prev       \* the last completed generate calls, oldest first

pureVars == <<input, gate, cost, iters>>
sharedVars == <<staticRng, peer, solo>>
engineVars == <<style, weights, grammarRng, generatorRng, seed, length, key,
                maxDepth, stack, substituted, prev, leaves, sharedVars>>
vars == <<pc, chords, pureVars, engineVars>>

(***************************************************************************)
(* Bounds of the model.                                                    *)
(***************************************************************************)
MaxProgLen == 3
MaxIter == 2
MaxLen == 3      \* largest length handed to generate
MaxLongLength == 16   \* largest length whose depth limit is computed
RngMod == 8      \* number of states of the seedable generator
Scale == 10000   \* fixed-point resolution of a rule weight: 1.0f is Scale
MaxSeed == 1     \* largest seed handed to setSeed

(***************************************************************************)
(* Core: PitchClass, ChordQuality, ChordSymbol.                            *)
(***************************************************************************)

\* C++ integer remainder: truncates toward zero, sign follows the dividend.
CppMod(a, b) == IF a >= 0 THEN a % b ELSE -((-a) % b)

PitchClass_remainder(value) == CppMod(value, 12)

PitchClass(value) ==
    LET v == CppMod(value, 12) IN IF v < 0 THEN v + 12 ELSE v

PitchClass_transpose(p, semitones) == PitchClass(p + semitones)

ChordQuality == {"MAJ7", "MIN7", "DOM7", "HDIM7", "DIM7", "AUG",
                 "MIN_MAJ7", "MAJ6", "MIN6", "SUS4", "SUS2"}

qualityIntervals(q) ==
    CASE q = "MAJ7"     -> <<0, 4, 7, 11>>
      [] q = "MIN7"     -> <<0, 3, 7, 10>>
      [] q = "DOM7"     -> <<0, 4, 7, 10>>
      [] q = "HDIM7"    -> <<0, 3, 6, 10>>
      [] q = "DIM7"     -> <<0, 3, 6, 9>>
      [] q = "AUG"      -> <<0, 4, 8>>
      [] q = "MIN_MAJ7" -> <<0, 3, 7, 11>>
      [] q = "MAJ6"     -> <<0, 4, 7, 9>>
      [] q = "MIN6"     -> <<0, 3, 7, 9>>
      [] q = "SUS4"     -> <<0, 5, 7, 10>>
      [] q = "SUS2"     -> <<0, 2, 7, 10>>
      [] OTHER          -> <<0, 4, 7>>

\* A chord is its root and quality (what operator== compares).
ChordSymbol(root, quality) == [root |-> root, quality |-> quality]

\* intervals[1] of the source is the second element: index 2 here.
third(c) ==
    LET intervals == qualityIntervals(c.quality)
        thirdInterval == IF Len(intervals) > 1 THEN intervals[2] ELSE 4
    IN PitchClass_transpose(c.root, thirdInterval)

seventh(c) ==
    LET intervals == qualityIntervals(c.quality)
    IN IF Len(intervals) < 4 THEN PitchClass_transpose(c.root, 10)
       ELSE PitchClass_transpose(c.root, intervals[4])

ChordSymbol_tritoneSubstitute(c) ==
    [c EXCEPT !.root = PitchClass_transpose(c.root, 6)]

(***************************************************************************)
(* Guide-tone voice leading.                                               *)
(***************************************************************************)
Min(a, b) == IF a < b THEN a ELSE b
Max(a, b) == IF a > b THEN a ELSE b

\* The upward distance only.
minInterval_forward(pc1, pc2) == CppMod(pc2 - pc1 + 12, 12)

minInterval(pc1, pc2) ==
    LET forward  == CppMod(pc2 - pc1 + 12, 12)
        backward == CppMod(pc1 - pc2 + 12, 12)
    IN Min(forward, backward)

\* The (third->third, seventh->seventh) pairing and the voice exchange.
pairingCost1(c1, c2) ==
    minInterval(third(c1), third(c2)) + minInterval(seventh(c1), seventh(c2))

pairingCost2(c1, c2) ==
    minInterval(third(c1), seventh(c2)) + minInterval(seventh(c1), third(c2))

\* The straight pairing only, without the voice exchange.
voiceLeadingCost_straight(chord1, chord2) == pairingCost1(chord1, chord2)

voiceLeadingCost_max(chord1, chord2) ==
    Max(pairingCost1(chord1, chord2), pairingCost2(chord1, chord2))

voiceLeadingCost(chord1, chord2) ==
    Min(pairingCost1(chord1, chord2), pairingCost2(chord1, chord2))

RECURSIVE costFrom(_, _)
costFrom(cs, i) ==
    IF i >= Len(cs) THEN 0
    ELSE voiceLeadingCost(cs[i], cs[i + 1]) + costFrom(cs, i + 1)

progressionVoiceLeadingCost(cs) ==
    IF Len(cs) < 2 THEN 0 ELSE costFrom(cs, 1)

(***************************************************************************)
(* Tritone substitution.                                                   *)
(***************************************************************************)
TritoneSubstitution_isDominant(c) == c.quality = "DOM7"

TritoneSubstitution_substitute5(c) ==
    IF ~TritoneSubstitution_isDominant(c) THEN c
    ELSE ChordSymbol(PitchClass_transpose(c.root, 5), c.quality)

TritoneSubstitution_substitute(c) ==
    IF ~TritoneSubstitution_isDominant(c) THEN c
    ELSE ChordSymbol(PitchClass_transpose(c.root, 6), c.quality)

\* g[i] is the outcome of shouldSubstitute at position i (drawn only for a
\* dominant chord: && short-circuits).
\* No look at the chord that follows.
TritoneSubstitution_apply_anyNext(progression, g) ==
    [i \in 1..Len(progression) |->
        IF TritoneSubstitution_isDominant(progression[i]) /\ g[i]
        THEN TritoneSubstitution_substitute(progression[i])
        ELSE progression[i]]

TritoneSubstitution_apply(progression, g) ==
    [i \in 1..Len(progression) |->
        LET chord == progression[i]
            resolvesDown ==
                /\ i + 1 <= Len(progression)
                /\ LET interval ==
                        CppMod(progression[i + 1].root - chord.root + 12, 12)
                   IN interval = 5 \/ interval = 7
        IN IF TritoneSubstitution_isDominant(chord) /\ g[i] /\ resolvesDown
           THEN TritoneSubstitution_substitute(chord)
           ELSE chord]

(***************************************************************************)
(* Backdoor substitution.                                                  *)
(***************************************************************************)
BackdoorSubstitution_isTonic(c) == c.quality = "MAJ7" \/ c.quality = "MAJ6"

BackdoorSubstitution_createBackdoor_fourth(tonicRoot) ==
    ChordSymbol(PitchClass_transpose(tonicRoot, 5), "DOM7")

BackdoorSubstitution_createBackdoor2(tonicRoot) ==
    ChordSymbol(PitchClass_transpose(tonicRoot, 2), "DOM7")

BackdoorSubstitution_createBackdoor(tonicRoot) ==
    ChordSymbol(PitchClass_transpose(tonicRoot, 10), "DOM7")

\* No test of the root.
BackdoorSubstitution_canApplyBackdoor_anyRoot(chord, nextChord) ==
    chord.quality = "DOM7" /\ BackdoorSubstitution_isTonic(nextChord)

BackdoorSubstitution_canApplyBackdoor(chord, nextChord) ==
    IF chord.quality # "DOM7" THEN FALSE
    ELSE LET expectedVRoot == CppMod(nextChord.root + 7, 12)
         IN chord.root = expectedVRoot /\ BackdoorSubstitution_isTonic(nextChord)

BackdoorSubstitution_apply(progression, g) ==
    [i \in 1..Len(progression) |->
        LET chord == progression[i]
        IN IF /\ i + 1 <= Len(progression)
              /\ BackdoorSubstitution_canApplyBackdoor(chord, progression[i + 1])
              /\ g[i]
           THEN BackdoorSubstitution_createBackdoor(progression[i + 1].root)
           ELSE chord]

(***************************************************************************)
(* Coltrane substitution.                                                  *)
(***************************************************************************)
ColtraneSubstitution_isIiVI_anyLast(c1, c2, c3) ==
    /\ c1.quality = "MIN7"
    /\ c2.quality = "DOM7"
    /\ c1.root = CppMod(c3.root + 2, 12)
    /\ c2.root = CppMod(c3.root + 7, 12)

ColtraneSubstitution_isIiVI(c1, c2, c3) ==
    IF c1.quality # "MIN7" THEN FALSE
    ELSE IF c2.quality # "DOM7" THEN FALSE
    ELSE IF c3.quality # "MAJ7" /\ c3.quality # "MAJ6" THEN FALSE
    ELSE LET tonicRoot  == c3.root
             expectedIi == CppMod(tonicRoot + 2, 12)
             expectedV  == CppMod(tonicRoot + 7, 12)
         IN c1.root = expectedIi /\ c2.root = expectedV

ColtraneSubstitution_substituteIiVI_six(ii, v, i) ==
    LET center2 == PitchClass_transpose(i.root, 4)
        center3 == PitchClass_transpose(i.root, 8)
    IN << ii,
          ChordSymbol(PitchClass_transpose(center2, 7), "DOM7"),
          ChordSymbol(center2, "MAJ7"),
          ChordSymbol(PitchClass_transpose(center3, 7), "DOM7"),
          ChordSymbol(center3, "MAJ7"),
          i >>

ColtraneSubstitution_substituteIiVI(ii, v, i) ==
    LET tonicRoot == i.root
        center2 == PitchClass_transpose(tonicRoot, 4)
        center3 == PitchClass_transpose(tonicRoot, 8)
    IN << ii,
          ChordSymbol(PitchClass_transpose(center2, 7), "DOM7"),
          ChordSymbol(center2, "MAJ7"),
          ChordSymbol(PitchClass_transpose(center3, 7), "DOM7"),
          ChordSymbol(center3, "MAJ7"),
          v,
          i >>

\* The loop of ColtraneSubstitution::apply from index i (1-based); g[i] is the
\* outcome of shouldSubstitute at position i (drawn when i + 2 is in range).
RECURSIVE ColtraneLoop(_, _, _)
ColtraneLoop(progression, g, i) ==
    IF i > Len(progression) THEN << >>
    ELSE IF /\ i + 2 <= Len(progression)
            /\ g[i]
            /\ ColtraneSubstitution_isIiVI(progression[i], progression[i + 1],
                                           progression[i + 2])
         THEN ColtraneSubstitution_substituteIiVI(progression[i],
                    progression[i + 1], progression[i + 2])
              \o ColtraneLoop(progression, g, i + 3)
         ELSE <<progression[i]>> \o ColtraneLoop(progression, g, i + 1)

ColtraneSubstitution_apply(progression, g) == ColtraneLoop(progression, g, 1)

(***************************************************************************)
(* shouldSubstitute(probability): dist(rng) < probability with dist uniform *)
(* on [0,1) over a generator seeded from std::random_device.  prob is in   *)
(* hundredths.                                                             *)
(***************************************************************************)
shouldSubstitute(prob) ==
    {b \in BOOLEAN : (b => prob > 0) /\ (~b => prob < 100)}

Probabilities == {0, 50, 100}

(***************************************************************************)
(* Voice-leading optimizer.                                                *)
(***************************************************************************)
\* A scan that tries the tritone move on every chord and accepts the first
\* move that changes the cost in either direction.
RECURSIVE firstImprovement_anyChange(_, _)
firstImprovement_anyChange(current, i) ==
    IF i > Len(current) THEN current
    ELSE LET test == [current EXCEPT ![i] = ChordSymbol_tritoneSubstitute(current[i])]
         IN IF progressionVoiceLeadingCost(test) # progressionVoiceLeadingCost(current)
            THEN test
            ELSE firstImprovement_anyChange(current, i + 1)

\* One iteration of the outer loop: the scan over i, returning the first
\* test progression accepted, or current when improved stays false.
\* currentCost always equals progressionVoiceLeadingCost(current).
RECURSIVE firstImprovement(_, _)
firstImprovement(current, i) ==
    IF i > Len(current) THEN current
    ELSE IF TritoneSubstitution_isDominant(current[i])
         THEN LET test == [current EXCEPT
                              ![i] = TritoneSubstitution_substitute(current[i])]
                  newCost == progressionVoiceLeadingCost(test)
                  currentCost == progressionVoiceLeadingCost(current)
              IN IF newCost < currentCost THEN test
                 ELSE firstImprovement(current, i + 1)
         ELSE firstImprovement(current, i + 1)

RECURSIVE optimizeLoop(_, _, _)
optimizeLoop(current, iter, maxIterations) ==
    IF iter >= maxIterations THEN current
    ELSE LET next == firstImprovement(current, 1)
         IN IF next = current THEN current
            ELSE optimizeLoop(next, iter + 1, maxIterations)

VoiceLeadingOptimizer_optimize(cs, maxIterations) ==
    optimizeLoop(cs, 0, maxIterations)

\* The number of times the body of the outer loop runs: one scan each.
RECURSIVE scanCount(_, _, _)
scanCount(current, iter, maxIterations) ==
    IF iter >= maxIterations THEN 0
    ELSE LET next == firstImprovement(current, 1)
         IN IF next = current THEN 1
            ELSE 1 + scanCount(next, iter + 1, maxIterations)

VoiceLeadingOptimizer_scans(cs, maxIterations) ==
    scanCount(cs, 0, maxIterations)

\* An optional chord: none, or the chord.
NoChord == << >>
SomeChord(c) == <<c>>

\* The cost of going from chord1 to chord2 by way of mid.
costVia(chord1, mid, chord2) ==
    voiceLeadingCost(chord1, mid) + voiceLeadingCost(mid, chord2)

\* Candidates kept when their cost is at most the direct cost.
connectingCandidates_orEqual(chord1, chord2) ==
    LET directCost == voiceLeadingCost(chord1, chord2)
        dim == ChordSymbol(PitchClass_transpose(chord1.root, 1), "DIM7")
        secDom == ChordSymbol(PitchClass_transpose(chord2.root, 7), "DOM7")
        ii == ChordSymbol(PitchClass_transpose(chord2.root, 2), "MIN7")
    IN SelectSeq(<<dim, secDom, ii>>,
                 LAMBDA c : costVia(chord1, c, chord2) <= directCost)

\* candidates: the passing diminished, the secondary dominant and the ii of
\* the target, in this order, each kept when its cost is below the direct
\* cost.
connectingCandidates(chord1, chord2) ==
    LET directCost == voiceLeadingCost(chord1, chord2)
        dim == ChordSymbol(PitchClass_transpose(chord1.root, 1), "DIM7")
        secDom == ChordSymbol(PitchClass_transpose(chord2.root, 7), "DOM7")
        ii == ChordSymbol(PitchClass_transpose(chord2.root, 2), "MIN7")
    IN SelectSeq(<<dim, secDom, ii>>,
                 LAMBDA c : costVia(chord1, c, chord2) < directCost)

\* std::min_element: the first candidate no other candidate is below.
VoiceLeadingOptimizer_suggestConnectingChord(chord1, chord2, k) ==
    LET candidates == connectingCandidates(chord1, chord2)
        second(c) == costVia(chord1, c, chord2)
        best == CHOOSE i \in 1..Len(candidates) :
                    /\ \A j \in 1..Len(candidates) :
                          ~(second(candidates[j]) < second(candidates[i]))
                    /\ \A j \in 1..(i - 1) :
                          second(candidates[j]) > second(candidates[i])
    IN IF voiceLeadingCost(chord1, chord2) <= 2 THEN NoChord
       ELSE IF candidates = << >> THEN NoChord
       ELSE SomeChord(candidates[best])

(***************************************************************************)
(* Style vectors.  A float field is held in hundredths.                    *)
(***************************************************************************)
clamp(v, lo, hi) == IF v < lo THEN lo ELSE IF hi < v THEN hi ELSE v

SWING ==
    [tritoneSubProb |-> 10, backdoorProb |-> 10, coltraneProb |-> 0,
     iiVPreference |-> 70, secondaryDomProb |-> 20, modalInterchange |-> 10,
     minorIvProb |-> 10, chromaticApproach |-> 10, diminishedApproach |-> 15,
     dominantChainDepth |-> 2, prolongationDepth |-> 1, rhythmDensity |-> 40,
     turnaroundProb |-> 50, extensionLevel |-> 30, alterationProb |-> 10]

BEBOP ==
    [tritoneSubProb |-> 30, backdoorProb |-> 15, coltraneProb |-> 5,
     iiVPreference |-> 90, secondaryDomProb |-> 40, modalInterchange |-> 20,
     minorIvProb |-> 15, chromaticApproach |-> 40, diminishedApproach |-> 20,
     dominantChainDepth |-> 4, prolongationDepth |-> 2, rhythmDensity |-> 80,
     turnaroundProb |-> 60, extensionLevel |-> 50, alterationProb |-> 30]

COOL ==
    [tritoneSubProb |-> 20, backdoorProb |-> 10, coltraneProb |-> 0,
     iiVPreference |-> 70, secondaryDomProb |-> 25, modalInterchange |-> 30,
     minorIvProb |-> 20, chromaticApproach |-> 20, diminishedApproach |-> 10,
     dominantChainDepth |-> 3, prolongationDepth |-> 2, rhythmDensity |-> 50,
     turnaroundProb |-> 40, extensionLevel |-> 40, alterationProb |-> 15]

HARDBOP ==
    [tritoneSubProb |-> 25, backdoorProb |-> 20, coltraneProb |-> 10,
     iiVPreference |-> 85, secondaryDomProb |-> 35, modalInterchange |-> 25,
     minorIvProb |-> 20, chromaticApproach |-> 35, diminishedApproach |-> 15,
     dominantChainDepth |-> 4, prolongationDepth |-> 2, rhythmDensity |-> 70,
     turnaroundProb |-> 50, extensionLevel |-> 55, alterationProb |-> 25]

MODAL ==
    [tritoneSubProb |-> 10, backdoorProb |-> 5, coltraneProb |-> 15,
     iiVPreference |-> 30, secondaryDomProb |-> 10, modalInterchange |-> 60,
     minorIvProb |-> 30, chromaticApproach |-> 10, diminishedApproach |-> 5,
     dominantChainDepth |-> 2, prolongationDepth |-> 3, rhythmDensity |-> 30,
     turnaroundProb |-> 20, extensionLevel |-> 60, alterationProb |-> 10]

POSTBOP ==
    [tritoneSubProb |-> 40, backdoorProb |-> 25, coltraneProb |-> 25,
     iiVPreference |-> 60, secondaryDomProb |-> 45, modalInterchange |-> 50,
     minorIvProb |-> 30, chromaticApproach |-> 50, diminishedApproach |-> 20,
     dominantChainDepth |-> 5, prolongationDepth |-> 3, rhythmDensity |-> 60,
     turnaroundProb |-> 40, extensionLevel |-> 70, alterationProb |-> 40]

FUSION ==
    [tritoneSubProb |-> 35, backdoorProb |-> 20, coltraneProb |-> 10,
     iiVPreference |-> 50, secondaryDomProb |-> 30, modalInterchange |-> 60,
     minorIvProb |-> 35, chromaticApproach |-> 40, diminishedApproach |-> 15,
     dominantChainDepth |-> 3, prolongationDepth |-> 2, rhythmDensity |-> 65,
     turnaroundProb |-> 30, extensionLevel |-> 75, alterationProb |-> 35]

CONTEMPORARY ==
    [tritoneSubProb |-> 35, backdoorProb |-> 20, coltraneProb |-> 15,
     iiVPreference |-> 65, secondaryDomProb |-> 35, modalInterchange |-> 45,
     minorIvProb |-> 25, chromaticApproach |-> 35, diminishedApproach |-> 15,
     dominantChainDepth |-> 4, prolongationDepth |-> 2, rhythmDensity |-> 55,
     turnaroundProb |-> 35, extensionLevel |-> 65, alterationProb |-> 30]

BLUES ==
    [tritoneSubProb |-> 15, backdoorProb |-> 25, coltraneProb |-> 0,
     iiVPreference |-> 50, secondaryDomProb |-> 20, modalInterchange |-> 40,
     minorIvProb |-> 40, chromaticApproach |-> 20, diminishedApproach |-> 10,
     dominantChainDepth |-> 2, prolongationDepth |-> 1, rhythmDensity |-> 40,
     turnaroundProb |-> 60, extensionLevel |-> 40, alterationProb |-> 20]

getStyleById(id) ==
    CASE id = 1 -> BEBOP
      [] id = 2 -> COOL
      [] id = 3 -> MODAL
      [] id = 4 -> HARDBOP
      [] id = 5 -> POSTBOP
      [] id = 6 -> SWING
      [] id = 7 -> FUSION
      [] id = 8 -> CONTEMPORARY
      [] id = 9 -> BLUES
      [] OTHER  -> BEBOP

StyleVector_validate(s) ==
    [f \in DOMAIN s |->
        CASE f = "dominantChainDepth" -> Max(1, s[f])
          [] f = "prolongationDepth"  -> Max(0, s[f])
          [] OTHER                    -> clamp(s[f], 0, 100)]

(***************************************************************************)
(* Grammar: symbols, rules, PCFG.                                          *)
(***************************************************************************)
\* std::optional<int> key: empty, or one value.
NoKey == << >>
SomeKey(k) == <<k>>

NonTerminal == {"S", "T", "D", "SD", "PROL", "PREP", "PHRASE"}

NTSymbol(n, k) == [kind |-> "NT", nt |-> n, key |-> k]
NT(n) == NTSymbol(n, NoKey)
TerminalSymbol(deg, qual) == [kind |-> "TERM", degree |-> deg, quality |-> qual]

Rule(lhs, rhs, prob, type, name) ==
    [lhs |-> lhs, rhs |-> rhs, prob |-> prob, type |-> type, name |-> name]

\* The rules of createBaseGrammar in the order they are added; prob is the
\* weight literal in hundredths.
BaseRules == <<
    Rule("S", <<NT("T")>>, 30, "STRUCTURAL", "single_phrase"),
    Rule("S", <<NT("T"), NT("D"), NT("T")>>, 50, "STRUCTURAL", "tdt_form"),
    Rule("S", <<NT("T"), NT("T")>>, 20, "STRUCTURAL", "tt_form"),
    Rule("T", <<TerminalSymbol("I", "maj7")>>, 30, "TERMINAL", "t_terminal"),
    Rule("T", <<NT("D"), NT("T")>>, 35, "PREPARATION", "authentic_cadence"),
    Rule("T", <<NT("SD"), NT("T")>>, 15, "PREPARATION", "plagal_cadence"),
    Rule("T", <<NT("T"), NT("PROL")>>, 10, "PROLONGATION", "t_right_prolong"),
    Rule("T", <<NT("PROL"), NT("T")>>, 10, "PROLONGATION", "t_left_prolong"),
    Rule("D", <<TerminalSymbol("V", "7")>>, 40, "TERMINAL", "d_terminal"),
    Rule("D", <<NT("PREP"), NT("D")>>, 40, "PREPARATION", "ii_v"),
    Rule("D", <<NT("D"), NT("PROL")>>, 10, "PROLONGATION", "d_prolong"),
    Rule("D", <<TerminalSymbol("bII", "7")>>, 10, "SUBSTITUTION", "tritone_sub"),
    Rule("SD", <<TerminalSymbol("IV", "maj7")>>, 50, "TERMINAL", "sd_iv"),
    Rule("SD", <<TerminalSymbol("ii", "min7")>>, 30, "TERMINAL", "sd_ii"),
    Rule("SD", <<TerminalSymbol("iv", "min7")>>, 20, "TERMINAL", "sd_borrowed_iv"),
    Rule("PREP", <<TerminalSymbol("ii", "min7")>>, 50, "TERMINAL", "prep_ii"),
    Rule("PREP", <<TerminalSymbol("IV", "maj7")>>, 20, "TERMINAL", "prep_iv"),
    Rule("PREP", <<TerminalSymbol("V/V", "7")>>, 15, "TERMINAL", "prep_secondary_dom"),
    Rule("PREP", <<NT("PREP"), NT("PREP")>>, 15, "PROLONGATION", "prep_chain"),
    Rule("PROL", <<TerminalSymbol("iii", "min7")>>, 30, "TERMINAL", "prol_iii"),
    Rule("PROL", <<TerminalSymbol("vi", "min7")>>, 40, "TERMINAL", "prol_vi"),
    Rule("PROL", <<TerminalSymbol("I", "maj7")>>, 30, "TERMINAL", "prol_i") >>

RuleIds == 1..Len(BaseRules)

\* PCFG::getRules(nt): the rules of nt, in insertion order, by index.
PCFG_getRules(nt) ==
    SelectSeq([i \in RuleIds |-> i], LAMBDA i : BaseRules[i].lhs = nt)

\* A weight literal in hundredths as a weight.
Hundredths(h) == (h * Scale) \div 100

\* Division rounded to nearest, as float division rounds.
RoundDiv(a, b) == (2 * a + b) \div (2 * b)

GrammarRule_setProb(p) == Max(0, Min(Scale, p))

RECURSIVE SumWeights(_, _)
SumWeights(w, ids) ==
    IF ids = << >> THEN 0 ELSE w[Head(ids)] + SumWeights(w, Tail(ids))

TotalOf(w, nt) == SumWeights(w, PCFG_getRules(nt))

\* The total weight of every non-terminal's rule list.
Totals(w) == [nt \in NonTerminal |-> TotalOf(w, nt)]

PCFG_normalize_byCount(w) ==
    LET total == Totals(w)
    IN [i \in DOMAIN w |->
           IF total[BaseRules[i].lhs] > 0
           THEN GrammarRule_setProb(
                    RoundDiv(w[i] * Scale,
                             Scale * Len(PCFG_getRules(BaseRules[i].lhs))))
           ELSE w[i]]

PCFG_normalize(w) ==
    LET total == Totals(w)
    IN [i \in DOMAIN w |->
           IF total[BaseRules[i].lhs] > 0
           THEN GrammarRule_setProb(RoundDiv(w[i] * Scale, total[BaseRules[i].lhs]))
           ELSE w[i]]

createBaseGrammar ==
    PCFG_normalize([i \in RuleIds |->
                        GrammarRule_setProb(Hundredths(BaseRules[i].prob))])

\* name.find("prolong") != npos
HasProlong(name) == name \in {"t_right_prolong", "t_left_prolong", "d_prolong"}

\* The weight styleToPCFG sets on rule i, or the weight it has when no
\* branch names it.  Products of hundredths are rescaled to weights.
StyledWeight(st, i, w) ==
    LET r == BaseRules[i]
        n == r.name
    IN CASE r.lhs = "D" /\ n = "ii_v" ->
              GrammarRule_setProb((40 * st.iiVPreference * Scale) \div 10000)
         [] r.lhs = "D" /\ n = "d_terminal" ->
              GrammarRule_setProb(
                  (40 * (1000 - 3 * st.iiVPreference) * Scale) \div 100000)
         [] r.lhs = "D" /\ n = "tritone_sub" ->
              GrammarRule_setProb((15 * st.tritoneSubProb * Scale) \div 10000)
         [] r.lhs = "T" /\ HasProlong(n) ->
              GrammarRule_setProb(
                  (10 * (10 + 2 * st.prolongationDepth) * Scale) \div 1000)
         [] r.lhs = "T" /\ n = "authentic_cadence" ->
              GrammarRule_setProb((35 * st.iiVPreference * Scale) \div 10000)
         [] r.lhs = "T" /\ n = "plagal_cadence" ->
              GrammarRule_setProb(
                  (15 * (200 + st.modalInterchange) * Scale) \div 20000)
         [] r.lhs = "PREP" /\ n = "prep_chain" ->
              GrammarRule_setProb(
                  (15 * Min(4, st.dominantChainDepth) * Scale) \div 400)
         [] r.lhs = "PREP" /\ n = "prep_secondary_dom" ->
              GrammarRule_setProb((15 * st.secondaryDomProb * Scale) \div 10000)
         [] r.lhs = "SD" /\ n = "sd_borrowed_iv" ->
              GrammarRule_setProb(
                  (20 * (100 + st.modalInterchange) * Scale) \div 10000)
         [] OTHER -> w[i]

styleToPCFG(st) ==
    LET base == createBaseGrammar
    IN PCFG_normalize([i \in RuleIds |-> StyledWeight(st, i, base)])

(***************************************************************************)
(* The seedable generator std::mt19937 rng_ of a PCFG, abstracted to a     *)
(* small linear congruential generator: a draw is a function of the state  *)
(* and advances it.                                                        *)
(***************************************************************************)
RngStates == 0..(RngMod - 1)
NextRng(s) == (5 * s + 1) % RngMod

\* uniform_real_distribution(0, total): the state s stands for s/RngMod.
UniformReal(s, total) == (s * total) \div RngMod
\* uniform_int_distribution(0, n - 1)
UniformInt(s, n) == s % n

NoRule == 0

RECURSIVE CumulativePick(_, _, _, _)
CumulativePick(w, ids, r, cumsum) ==
    IF Len(ids) = 1 THEN Head(ids)
    ELSE IF r <= cumsum + w[Head(ids)] THEN Head(ids)
         ELSE CumulativePick(w, Tail(ids), r, cumsum + w[Head(ids)])

\* PCFG::sampleRule(nt) with the generator in state s: the rule drawn
\* (NoRule for nullptr).  The generator advances iff a rule list exists.
PCFG_sampleRule(w, nt, s) ==
    LET ruleList == PCFG_getRules(nt)
        total == SumWeights(w, ruleList)
    IN IF ruleList = << >> THEN NoRule
       ELSE IF total = 0 THEN ruleList[UniformInt(s, Len(ruleList)) + 1]
       ELSE CumulativePick(w, ruleList, UniformReal(s, total), 0)

(***************************************************************************)
(* HarmonyGenerator.                                                       *)
(***************************************************************************)
degreeToSemitones(degree) ==
    CASE degree \in {"I", "i", "V/IV"}  -> 0
      [] degree = "bII"                 -> 1
      [] degree \in {"II", "ii", "V/V"} -> 2
      [] degree = "bIII"                -> 3
      [] degree \in {"III", "iii"}      -> 4
      [] degree \in {"IV", "iv"}        -> 5
      [] degree = "#IV"                 -> 6
      [] degree \in {"V", "v"}          -> 7
      [] degree = "bVI"                 -> 8
      [] degree \in {"VI", "vi", "V/ii"} -> 9
      [] degree = "bVII"                -> 10
      [] degree \in {"VII", "vii"}      -> 11
      [] OTHER                          -> 0

stringToChordQuality_dominant(str) ==
    CASE str = "maj7" -> "MAJ7"
      [] str = "min7" -> "MIN7"
      [] str = "m7b5" -> "HDIM7"
      [] str = "dim7" -> "DIM7"
      [] str = "maj6" -> "MAJ6"
      [] str = "min6" -> "MIN6"
      [] OTHER        -> "DOM7"

stringToChordQuality(str) ==
    CASE str = "maj7" -> "MAJ7"
      [] str = "min7" -> "MIN7"
      [] str = "7"    -> "DOM7"
      [] str = "m7b5" -> "HDIM7"
      [] str = "dim7" -> "DIM7"
      [] str = "maj6" -> "MAJ6"
      [] str = "min6" -> "MIN6"
      [] OTHER        -> "MAJ7"

\* degree.find('/') != npos, and the text after the slash, for the degrees
\* the grammar can hold.
HasSlash(degree) == degree \in {"V/V", "V/ii", "V/IV"}
AfterSlash(degree) ==
    CASE degree = "V/V"  -> "V"
      [] degree = "V/ii" -> "ii"
      [] degree = "V/IV" -> "IV"

HarmonyGenerator_getDefaultTerminal_dominant(nt) ==
    CASE nt = "T"    -> TerminalSymbol("I", "maj7")
      [] nt = "SD"   -> TerminalSymbol("IV", "maj7")
      [] nt = "PREP" -> TerminalSymbol("ii", "min7")
      [] nt = "PROL" -> TerminalSymbol("vi", "min7")
      [] OTHER       -> TerminalSymbol("V", "7")

HarmonyGenerator_getDefaultTerminal(nt) ==
    CASE nt = "T"    -> TerminalSymbol("I", "maj7")
      [] nt = "D"    -> TerminalSymbol("V", "7")
      [] nt = "SD"   -> TerminalSymbol("IV", "maj7")
      [] nt = "PREP" -> TerminalSymbol("ii", "min7")
      [] nt = "PROL" -> TerminalSymbol("vi", "min7")
      [] OTHER       -> TerminalSymbol("I", "maj7")

HarmonyGenerator_terminalToChord_byTable(terminal, k) ==
    LET interval == degreeToSemitones(terminal.degree)
        rootPc == CppMod(k + interval, 12)
    IN ChordSymbol(PitchClass(IF rootPc < 0 THEN rootPc + 12 ELSE rootPc),
                   stringToChordQuality(terminal.quality))

HarmonyGenerator_terminalToChord(terminal, k) ==
    LET degree == IF HasSlash(terminal.degree) THEN "V" ELSE terminal.degree
        interval == degreeToSemitones(degree)
        rootPc == CppMod(k + interval, 12)
    IN ChordSymbol(PitchClass(IF rootPc < 0 THEN rootPc + 12 ELSE rootPc),
                   stringToChordQuality(terminal.quality))

HarmonyGenerator_setKey(k) ==
    LET m == CppMod(k, 12) IN IF m < 0 THEN m + 12 ELSE m

HarmonyGenerator_setMaxDepth(depth) == Max(1, depth)

\* One pending call derive(symbol, depth, key).
Frame(sym, depth, k) == [sym |-> sym, depth |-> depth, key |-> k]

\* A modulation that stays in force for the symbols after it.
RECURSIVE ChildFrames_carried(_, _, _)
ChildFrames_carried(rhs, depth, currentKey) ==
    IF rhs = << >> THEN << >>
    ELSE LET rhsSym == Head(rhs)
             childKey ==
                 IF rhsSym.kind = "NT"
                 THEN IF rhsSym.key # NoKey THEN rhsSym.key[1] ELSE currentKey
                 ELSE IF HasSlash(rhsSym.degree)
                      THEN CppMod(currentKey
                                  + degreeToSemitones(AfterSlash(rhsSym.degree)), 12)
                      ELSE currentKey
         IN <<Frame(IF rhsSym.kind = "NT"
                    THEN NTSymbol(rhsSym.nt, SomeKey(childKey))
                    ELSE rhsSym,
                    depth + 1, childKey)>>
            \o ChildFrames_carried(Tail(rhs), depth, childKey)

\* The calls derive makes for the right-hand side of a rule, in order.
ChildFrames(rhs, depth, currentKey) ==
    [j \in 1..Len(rhs) |->
        LET rhsSym == rhs[j]
            childKey ==
                IF rhsSym.kind = "NT"
                THEN IF rhsSym.key # NoKey THEN rhsSym.key[1] ELSE currentKey
                ELSE IF HasSlash(rhsSym.degree)
                     THEN CppMod(currentKey
                                 + degreeToSemitones(AfterSlash(rhsSym.degree)), 12)
                     ELSE currentKey
        IN Frame(IF rhsSym.kind = "NT"
              THEN NTSymbol(rhsSym.nt, SomeKey(childKey))
              ELSE rhsSym,
              depth + 1, childKey)]

TerminalRules_anyKind(nt) == PCFG_getRules(nt)

TerminalRules(nt) ==
    SelectSeq(PCFG_getRules(nt), LAMBDA i : BaseRules[i].type = "TERMINAL")

(***************************************************************************)
(* StyleEngine.                                                            *)
(***************************************************************************)
\* The depth limit growing with the length, without the cap.
StyleEngine_maxDepth_uncapped(len) ==
    HarmonyGenerator_setMaxDepth(len \div 2 + 2)

\* The depth limit generate hands to the generator for a length.
StyleEngine_maxDepth(len) ==
    HarmonyGenerator_setMaxDepth(Min(6, len \div 2 + 2))

\* A turnaround started wherever the draw passes, the last place included.
RECURSIVE padLoop_anyPlace(_, _, _, _)
padLoop_anyPlace(cs, target, k, g) ==
    IF Len(cs) >= target THEN cs
    ELSE IF g[Len(cs) + 1]
         THEN LET withIi == Append(cs,
                      ChordSymbol(PitchClass_transpose(PitchClass(k), 2), "MIN7"))
              IN padLoop_anyPlace(
                     IF Len(withIi) < target
                     THEN Append(withIi,
                              ChordSymbol(PitchClass_transpose(PitchClass(k), 7),
                                          "DOM7"))
                     ELSE withIi,
                     target, k, g)
         ELSE padLoop_anyPlace(Append(cs, ChordSymbol(PitchClass(k), "MAJ7")),
                               target, k, g)

RECURSIVE padLoop(_, _, _, _)
padLoop(cs, target, k, g) ==
    IF Len(cs) >= target THEN cs
    ELSE IF g[Len(cs) + 1] /\ Len(cs) < target - 1
         THEN LET withIi == Append(cs,
                      ChordSymbol(PitchClass_transpose(PitchClass(k), 2), "MIN7"))
              IN padLoop(IF Len(withIi) < target
                         THEN Append(withIi,
                                  ChordSymbol(PitchClass_transpose(PitchClass(k), 7),
                                              "DOM7"))
                         ELSE withIi,
                         target, k, g)
         ELSE padLoop(Append(cs, ChordSymbol(PitchClass(k), "MAJ7")), target, k, g)

\* chords.resize(n) when chords.size() > n
resizeDown_keep(cs, n) == cs

resizeDown(cs, n) == IF Len(cs) > n THEN SubSeq(cs, 1, n) ELSE cs

\* g[n] is the outcome of dist(rng) < turnaroundProb drawn when the
\* sequence holds n - 1 chords.
StyleEngine_adjustLength(cs, target, k, g) ==
    IF Len(cs) >= target THEN SubSeq(cs, 1, target)
    ELSE resizeDown(padLoop(cs, target, k, g), target)

BackdoorEnabled(st) == st.modalInterchange > 20
TritoneEnabled(st) == st.tritoneSubProb > 10
ColtraneEnabled(st) == st.dominantChainDepth >= 4 /\ st.chromaticApproach > 40

BackdoorProb(st) == (st.modalInterchange * 30) \div 100
ColtraneProb(st) == (st.chromaticApproach * 15) \div 100

SubstitutionEngine_backdoorStage(progression, st, gb) ==
    IF BackdoorEnabled(st)
    THEN BackdoorSubstitution_apply(progression, gb) ELSE progression

SubstitutionEngine_tritoneStage(progression, st, gt) ==
    IF TritoneEnabled(st)
    THEN TritoneSubstitution_apply(progression, gt) ELSE progression

SubstitutionEngine_coltraneStage(progression, st, gc) ==
    IF ColtraneEnabled(st)
    THEN ColtraneSubstitution_apply(progression, gc) ELSE progression

\* The tritone stage ahead of the backdoor stage.
SubstitutionEngine_apply_tritoneFirst(progression, st, gb, gt, gc) ==
    SubstitutionEngine_coltraneStage(
        SubstitutionEngine_backdoorStage(
            SubstitutionEngine_tritoneStage(progression, st, gt), st, gb),
        st, gc)

SubstitutionEngine_apply(progression, st, gb, gt, gc) ==
    SubstitutionEngine_coltraneStage(
        SubstitutionEngine_tritoneStage(
            SubstitutionEngine_backdoorStage(progression, st, gb), st, gt),
        st, gc)

\* The positions at which a stage calls shouldSubstitute: the && before the
\* call short-circuits everywhere else.
BackdoorDraws(progression) ==
    {i \in 1..Len(progression) :
        /\ i + 1 <= Len(progression)
        /\ BackdoorSubstitution_canApplyBackdoor(progression[i], progression[i + 1])}
TritoneDraws(progression) ==
    {i \in 1..Len(progression) : TritoneSubstitution_isDominant(progression[i])}
ColtraneDraws(progression) ==
    {i \in 1..Len(progression) : i + 2 <= Len(progression)}

\* The outcomes of the draws of a stage, FALSE where nothing is drawn.
Gates(n, draws, prob) ==
    {g \in [1..n -> BOOLEAN] :
        \A i \in 1..n : IF i \in draws THEN g[i] \in shouldSubstitute(prob)
                                       ELSE ~g[i]}

(***************************************************************************)
(* Inputs of the pure operations.                                          *)
(***************************************************************************)
SeqsUpTo(S, n) == UNION {[1..k -> S] : k \in 0..n}

AllChords == {ChordSymbol(r, q) : r \in 0..11, q \in ChordQuality}

TestRoots == {0, 2, 5, 7, 10}
TestQualities == {"MAJ7", "MAJ6", "MIN7", "DOM7"}
TestChords == {ChordSymbol(r, q) : r \in TestRoots, q \in TestQualities}

TestProgressions == SeqsUpTo(TestChords, MaxProgLen)

NoGate == << >>

(***************************************************************************)
(* SpecSub: one substitution transform applied to an arbitrary progression.*)
(***************************************************************************)
\* The pure operations run without an engine.
NoSeed == << >>
NoCalls == << >>

\* One engine: the static generators' states are not tracked, their draws
\* are free choices.
Untracked == << >>
OneEngine ==
    /\ staticRng = Untracked
    /\ peer = Untracked
    /\ solo = Untracked

EngineUnused ==
    /\ style = BEBOP
    /\ weights = createBaseGrammar
    /\ grammarRng = 0
    /\ generatorRng = 0
    /\ seed = NoSeed
    /\ length = 0
    /\ key = 0
    /\ maxDepth = 0
    /\ stack = << >>
    /\ substituted = << >>
    /\ prev = NoCalls
    /\ leaves = << >>
    /\ OneEngine

InitSub ==
    /\ input \in TestProgressions
    /\ chords = input
    /\ pc = "ready"
    /\ gate = NoGate
    /\ cost = 0
    /\ iters = 0
    /\ EngineUnused

ApplyBackdoor ==
    /\ pc = "ready"
    /\ \E p \in Probabilities :
         \E g \in [1..Len(input) -> shouldSubstitute(p)] :
            /\ chords' = BackdoorSubstitution_apply(input, g)
            /\ gate' = g
    /\ pc' = "backdoor"
    /\ UNCHANGED <<input, cost, iters, engineVars>>

ApplyTritone ==
    /\ pc = "ready"
    /\ \E p \in Probabilities :
         \E g \in [1..Len(input) -> shouldSubstitute(p)] :
            /\ chords' = TritoneSubstitution_apply(input, g)
            /\ gate' = g
    /\ pc' = "tritone"
    /\ UNCHANGED <<input, cost, iters, engineVars>>

ApplyColtrane ==
    /\ pc = "ready"
    /\ \E p \in Probabilities :
         \E g \in [1..Len(input) -> shouldSubstitute(p)] :
            /\ chords' = ColtraneSubstitution_apply(input, g)
            /\ gate' = g
    /\ pc' = "coltrane"
    /\ UNCHANGED <<input, cost, iters, engineVars>>

NextSub == ApplyBackdoor \/ ApplyTritone \/ ApplyColtrane

SpecSub == InitSub /\ [][NextSub]_vars

(***************************************************************************)
(* SpecVL: the pairwise cost, the optimizer and the single-chord tritone   *)
(* substitution applied to arbitrary chords.                               *)
(***************************************************************************)
InitVL ==
    /\ input \in [1..2 -> AllChords] \cup TestProgressions
    /\ chords = input
    /\ pc = "ready"
    /\ gate = NoGate
    /\ cost = 0
    /\ iters = 0
    /\ EngineUnused

ComputeCost ==
    /\ pc = "ready"
    /\ Len(input) = 2
    /\ cost' = voiceLeadingCost(input[1], input[2])
    /\ pc' = "cost"
    /\ UNCHANGED <<input, chords, gate, iters, engineVars>>

Optimize ==
    /\ pc = "ready"
    /\ \E m \in 0..MaxIter :
         /\ chords' = VoiceLeadingOptimizer_optimize(input, m)
         /\ iters' = m
    /\ pc' = "optimized"
    /\ UNCHANGED <<input, gate, cost, engineVars>>

\* TritoneSubstitution::substitute applied to the first chord, up to twice.
Substitute ==
    /\ pc \in {"ready", "sub1"}
    /\ Len(chords) >= 1
    /\ chords' = [chords EXCEPT ![1] = TritoneSubstitution_substitute(chords[1])]
    /\ pc' = IF pc = "ready" THEN "sub1" ELSE "sub2"
    /\ UNCHANGED <<input, gate, cost, iters, engineVars>>

\* ChordSymbol::tritoneSubstitute applied to the first chord, up to twice.
TritoneSubstitute ==
    /\ pc \in {"ready", "ts1"}
    /\ Len(chords) >= 1
    /\ chords' = [chords EXCEPT ![1] = ChordSymbol_tritoneSubstitute(chords[1])]
    /\ pc' = IF pc = "ready" THEN "ts1" ELSE "ts2"
    /\ UNCHANGED <<input, gate, cost, iters, engineVars>>

\* suggestConnectingChord between the two chords; chords holds the answer.
SuggestConnectingChord ==
    /\ pc = "ready"
    /\ Len(input) = 2
    /\ \E k \in {0, 10} :
         chords' = VoiceLeadingOptimizer_suggestConnectingChord(
                       input[1], input[2], PitchClass(k))
    /\ pc' = "suggested"
    /\ UNCHANGED <<input, gate, cost, iters, engineVars>>

NextVL ==
    \/ ComputeCost
    \/ Optimize
    \/ Substitute
    \/ TritoneSubstitute
    \/ SuggestConnectingChord

SpecVL == InitVL /\ [][NextVL]_vars

(***************************************************************************)
(* SpecNorm: PCFG::normalize and GrammarRule::setProb on a grammar whose   *)
(* Dominant rules start at arbitrary weights.                              *)
(***************************************************************************)
WeightLevels == {0, 1, Scale \div 3, Scale}
\* Values handed to setProb, some outside [0, 1].
ProbInputs == {-1, 0, Scale \div 2, Scale + 1}
SettableRules == {i \in RuleIds : BaseRules[i].lhs = "S"}

InitNorm ==
    /\ \E d \in [{i \in RuleIds : BaseRules[i].lhs = "D"} -> WeightLevels] :
         weights = [i \in RuleIds |->
                       IF i \in DOMAIN d THEN d[i]
                       ELSE GrammarRule_setProb(Hundredths(BaseRules[i].prob))]
    /\ input = weights
    /\ pc = "ready"
    /\ chords = << >>
    /\ gate = NoGate
    /\ cost = 0
    /\ iters = 0
    /\ style = BEBOP
    /\ grammarRng = 0
    /\ generatorRng = 0
    /\ seed = NoSeed
    /\ length = 0
    /\ key = 0
    /\ maxDepth = 0
    /\ stack = << >>
    /\ substituted = << >>
    /\ prev = NoCalls
    /\ leaves = << >>
    /\ OneEngine

normVars == <<chords, gate, cost, style, grammarRng, generatorRng, seed,
              length, key, maxDepth, stack, substituted, prev, leaves,
              sharedVars>>

\* rule->setProb(p) on one rule; iters counts the calls.
SetProb ==
    /\ iters < MaxIter
    /\ \E i \in SettableRules, p \in ProbInputs :
         weights' = [weights EXCEPT ![i] = GrammarRule_setProb(p)]
    /\ iters' = iters + 1
    /\ pc' = "ready"
    /\ UNCHANGED <<input, normVars>>

\* PCFG::normalize(); input keeps the weights it was called on.
Normalize ==
    /\ pc = "ready"
    /\ input' = weights
    /\ weights' = PCFG_normalize(weights)
    /\ pc' = "normalized"
    /\ UNCHANGED <<iters, normVars>>

NextNorm == SetProb \/ Normalize

SpecNorm == InitNorm /\ [][NextNorm]_vars

(***************************************************************************)
(* The engine: construction, style and seed changes, and generate as the   *)
(* sequence derive* ; adjustLength ; SubstitutionEngine::apply ; optimize ; *)
(* resize.                                                                 *)
(***************************************************************************)
Seeds == 0..MaxSeed

\* styleToPCFG on the validated presets.
StyledGrammar ==
    [st \in {StyleVector_validate(getStyleById(id)) : id \in 1..9} |->
        styleToPCFG(st)]

TestKeys == {0, 10}
TestStyleIds == {1, 3, 5}

\* updateGrammar: the grammar is rebuilt with a generator seeded from
\* std::random_device, and the HarmonyGenerator takes a copy of it.
StyleEngine_updateGrammar(st, r) ==
    /\ weights' = StyledGrammar[st]
    /\ grammarRng' = r
    /\ generatorRng' = r
    /\ seed' = NoSeed

StyleEngine_ctor ==
    /\ style = StyleVector_validate(BEBOP)
    /\ weights = StyledGrammar[style]
    /\ grammarRng \in RngStates
    /\ generatorRng = grammarRng
    /\ seed = NoSeed
    /\ length = 0
    /\ key = 0
    /\ maxDepth = 6
    /\ stack = << >>
    /\ substituted = << >>
    /\ prev = NoCalls
    /\ leaves = << >>
    /\ OneEngine
    /\ pc = "idle"
    /\ chords = << >>
    /\ input = << >>
    /\ gate = NoGate
    /\ cost = 0
    /\ iters = 0

Idle == pc \in {"idle", "done"}

StyleEngine_setStyleById(ids) ==
    /\ Idle
    /\ \E id \in ids :
         /\ style' = StyleVector_validate(getStyleById(id))
         /\ \E r \in RngStates : StyleEngine_updateGrammar(style', r)
    /\ pc' = "idle"
    /\ chords' = << >>
    /\ UNCHANGED <<pureVars, length, key, maxDepth, stack, substituted, prev,
                   leaves, sharedVars>>

\* getGrammar().setSeed(s): reseeds StyleEngine::grammar_ only.
StyleEngine_setSeed ==
    /\ Idle
    /\ \E s \in Seeds :
         /\ grammarRng' = s % RngMod
         /\ seed' = <<s>>
    /\ pc' = "idle"
    /\ chords' = << >>
    /\ UNCHANGED <<pureVars, style, weights, generatorRng, length, key,
                   maxDepth, stack, substituted, prev, leaves, sharedVars>>

\* generate, up to the call of generator_->generate().  With reseeded, only
\* calls that directly follow getGrammar().setSeed are taken.
StyleEngine_generate(lengths, keys, reseeded) ==
    /\ IF reseeded THEN pc = "idle" /\ seed # NoSeed ELSE Idle
    /\ \E len \in lengths, k \in keys :
         /\ length' = len
         /\ key' = k
         /\ maxDepth' = StyleEngine_maxDepth(len)
         /\ stack' = <<Frame(NTSymbol("S", SomeKey(HarmonyGenerator_setKey(k))), 0,
                             HarmonyGenerator_setKey(k))>>
    /\ chords' = << >>
    /\ input' = << >>
    /\ substituted' = << >>
    /\ leaves' = << >>
    /\ pc' = "derive"
    /\ UNCHANGED <<gate, cost, iters, style, weights, grammarRng,
                   generatorRng, seed, prev, sharedVars>>

\* One call of derive: the leftmost pending one.  A leaf goes to the end of
\* chords, which is the order getTerminals and terminalsToChords give.
HarmonyGenerator_derive ==
    /\ pc = "derive"
    /\ stack # << >>
    /\ LET f == Head(stack)
           rest == Tail(stack)
       IN IF f.sym.kind = "TERM"
          THEN /\ chords' = Append(chords,
                               HarmonyGenerator_terminalToChord(f.sym, f.key))
               /\ leaves' = Append(leaves, <<f.sym, f.key>>)
               /\ stack' = rest
               /\ UNCHANGED generatorRng
          ELSE LET nt == f.sym.nt
                   currentKey == IF f.sym.key # NoKey THEN f.sym.key[1]
                                 ELSE f.key
                   leaf == Append(chords,
                              HarmonyGenerator_terminalToChord(
                                  HarmonyGenerator_getDefaultTerminal(nt),
                                  currentKey))
                   termNode == Append(leaves,
                                  <<HarmonyGenerator_getDefaultTerminal(nt),
                                    currentKey>>)
               IN IF f.depth >= maxDepth
                  THEN /\ UNCHANGED generatorRng
                       /\ IF TerminalRules(nt) # << >>
                          THEN \* dist(rng) on the function's static generator
                               /\ \E j \in 1..Len(TerminalRules(nt)) :
                                    stack' = ChildFrames(
                                        BaseRules[TerminalRules(nt)[j]].rhs,
                                        f.depth, currentKey) \o rest
                               /\ UNCHANGED <<chords, leaves>>
                          ELSE /\ chords' = leaf
                               /\ leaves' = termNode
                               /\ stack' = rest
                  ELSE LET rule == PCFG_sampleRule(weights, nt, generatorRng)
                       IN /\ generatorRng' = IF PCFG_getRules(nt) = << >>
                                             THEN generatorRng
                                             ELSE NextRng(generatorRng)
                          /\ IF rule = NoRule
                             THEN /\ chords' = leaf
                                  /\ leaves' = termNode
                                  /\ stack' = rest
                             ELSE /\ stack' = ChildFrames(BaseRules[rule].rhs,
                                                  f.depth, currentKey) \o rest
                                  /\ UNCHANGED <<chords, leaves>>
    /\ UNCHANGED <<pc, pureVars, style, weights, grammarRng, seed, length,
                   key, maxDepth, substituted, prev, sharedVars>>

\* chords = adjustLength(chords, length, key); input keeps what the
\* derivation returned.
StyleEngine_adjustLengthStep ==
    /\ pc = "derive"
    /\ stack = << >>
    /\ \E g \in Gates(length, (Len(chords) + 1)..length, style.turnaroundProb) :
         chords' = StyleEngine_adjustLength(chords, length, key, g)
    /\ input' = chords
    /\ pc' = "adjusted"
    /\ UNCHANGED <<gate, cost, iters, engineVars>>

\* chords = SubstitutionEngine::apply(chords, style_)
SubstitutionEngine_applyStep ==
    /\ pc = "adjusted"
    /\ \E gb \in Gates(Len(chords),
                       IF BackdoorEnabled(style) THEN BackdoorDraws(chords) ELSE {},
                       BackdoorProb(style)) :
         LET r1 == SubstitutionEngine_backdoorStage(chords, style, gb)
         IN \E gt \in Gates(Len(r1),
                       IF TritoneEnabled(style) THEN TritoneDraws(r1) ELSE {},
                       style.tritoneSubProb) :
              LET r2 == SubstitutionEngine_tritoneStage(r1, style, gt)
              IN \E gc \in Gates(Len(r2),
                       IF ColtraneEnabled(style) THEN ColtraneDraws(r2) ELSE {},
                       ColtraneProb(style)) :
                   chords' = SubstitutionEngine_apply(chords, style, gb, gt, gc)
    /\ substituted' = chords'
    /\ pc' = "substituted"
    /\ UNCHANGED <<pureVars, style, weights, grammarRng, generatorRng, seed,
                   length, key, maxDepth, stack, prev, leaves, sharedVars>>

Call(sd, st, k, len, result) ==
    [seed |-> sd, style |-> st, key |-> k, length |-> len, chords |-> result]

\* The optimizer when the style asks for it, the final resize, the return.
\* With record, prev keeps the last two completed calls.
StyleEngine_return(record) ==
    /\ pc = "substituted"
    /\ chords' = resizeDown(IF style.extensionLevel > 50
                            THEN VoiceLeadingOptimizer_optimize(chords, 50)
                            ELSE chords,
                            length)
    /\ prev' = IF record
               THEN LET c == Call(seed, style, key, length, chords')
                    IN IF Len(prev) = 2 THEN <<prev[2], c>> ELSE Append(prev, c)
               ELSE prev
    /\ pc' = "done"
    /\ UNCHANGED <<pureVars, style, weights, grammarRng, generatorRng, seed,
                   length, key, maxDepth, stack, substituted, leaves,
                   sharedVars>>

Next ==
    \/ StyleEngine_setStyleById(TestStyleIds)
    \/ StyleEngine_setSeed
    \/ StyleEngine_generate(1..MaxLen, TestKeys, FALSE)
    \/ HarmonyGenerator_derive
    \/ StyleEngine_adjustLengthStep
    \/ SubstitutionEngine_applyStep
    \/ StyleEngine_return(FALSE)

Spec == StyleEngine_ctor /\ [][Next]_vars

(***************************************************************************)
(* generate as one function of the engine and of the states of the static  *)
(* generators, each static generator tracked as a stream: a draw reads its *)
(* state and advances it, whichever engine makes the call.                 *)
(***************************************************************************)
StaticGens == {"derive", "adjustLength", "backdoor", "tritone", "coltrane"}

\* dist(rng) < probability, dist uniform on [0, 1); the state s stands for
\* s / RngMod and prob is in hundredths.
Below(s, prob) == (s * 100) \div RngMod < prob

RECURSIVE Advance(_, _)
Advance(s, n) == IF n = 0 THEN s ELSE Advance(NextRng(s), n - 1)

\* One call of derive, the head of the stack st: the stack, the chords, the
\* generator's state and the state of derive's static generator after it.
deriveCall(w, md, st, ch, g, sd) ==
    LET f == Head(st)
        rest == Tail(st)
    IN IF f.sym.kind = "TERM"
       THEN [st |-> rest,
             ch |-> Append(ch, HarmonyGenerator_terminalToChord(f.sym, f.key)),
             g |-> g, sd |-> sd]
       ELSE LET nt == f.sym.nt
                currentKey == IF f.sym.key # NoKey THEN f.sym.key[1]
                              ELSE f.key
                leaf == Append(ch, HarmonyGenerator_terminalToChord(
                            HarmonyGenerator_getDefaultTerminal(nt),
                            currentKey))
            IN IF f.depth >= md
               THEN IF TerminalRules(nt) # << >>
                    THEN [st |-> ChildFrames(
                                     BaseRules[TerminalRules(nt)[
                                         UniformInt(sd, Len(TerminalRules(nt))) + 1]].rhs,
                                     f.depth, currentKey) \o rest,
                          ch |-> ch, g |-> g, sd |-> NextRng(sd)]
                    ELSE [st |-> rest, ch |-> leaf, g |-> g, sd |-> sd]
               ELSE LET rule == PCFG_sampleRule(w, nt, g)
                        g2 == IF PCFG_getRules(nt) = << >> THEN g
                              ELSE NextRng(g)
                    IN IF rule = NoRule
                       THEN [st |-> rest, ch |-> leaf, g |-> g2, sd |-> sd]
                       ELSE [st |-> ChildFrames(BaseRules[rule].rhs, f.depth,
                                                currentKey) \o rest,
                             ch |-> ch, g |-> g2, sd |-> sd]

\* derive run to the end of the stack st: the chords, the generator's state
\* and the state of derive's static generator afterwards.  Each call is
\* bound to its result before the next one is made.
RECURSIVE deriveRun(_, _, _, _, _, _)
deriveRun(w, md, st, ch, g, sd) ==
    IF st = << >> THEN [chords |-> ch, rng |-> g, srng |-> sd]
    ELSE CHOOSE r \in {deriveRun(n.w, n.md, n.c.st, n.c.ch, n.c.g, n.c.sd) :
                          n \in {[w |-> w, md |-> md,
                                  c |-> deriveCall(w, md, st, ch, g, sd)]}} :
             TRUE

\* The draws of adjustLength's padding loop from a sequence of size chords:
\* their outcomes by size + 1, and the static generator's state afterwards.
RECURSIVE padDraws(_, _, _, _, _)
padDraws(size, target, prob, s, g) ==
    IF size >= target THEN [gate |-> g, srng |-> s]
    ELSE LET b == Below(s, prob)
         IN padDraws(IF b /\ size < target - 1 THEN size + 2 ELSE size + 1,
                     target, prob, NextRng(s), [g EXCEPT ![size + 1] = b])

\* The draws of a stage that draws once at each position of draws, in order.
streamGate(n, draws, prob, s) ==
    [gate |-> [i \in 1..n |->
                  /\ i \in draws
                  /\ Below(Advance(s, Cardinality({j \in draws : j < i})), prob)],
     srng |-> Advance(s, Cardinality(draws))]

\* The draws of ColtraneSubstitution::apply: one at each position visited
\* that has two chords after it; a firing skips the next two positions.
RECURSIVE coltraneDraws(_, _, _, _, _)
coltraneDraws(progression, prob, s, i, g) ==
    IF i > Len(progression) THEN [gate |-> g, srng |-> s]
    ELSE IF i + 2 <= Len(progression)
         THEN LET b == Below(s, prob)
                  fires == b /\ ColtraneSubstitution_isIiVI(progression[i],
                                    progression[i + 1], progression[i + 2])
              IN coltraneDraws(progression, prob, NextRng(s),
                               IF fires THEN i + 3 ELSE i + 1,
                               [g EXCEPT ![i] = b])
         ELSE coltraneDraws(progression, prob, s, i + 1, g)

NoDraws(n) == [i \in 1..n |-> FALSE]

\* StyleEngine::generate(len, k) on the engine e = [style, weights, rng]
\* with the static generators in the states sr: the chords returned, the
\* engine's generator and the static generators afterwards.
StyleEngine_substituteRun(e, len, k, sr, d, pad, adjusted) ==
    LET n == Len(adjusted)
        gb == IF BackdoorEnabled(e.style)
              THEN streamGate(n, BackdoorDraws(adjusted), BackdoorProb(e.style),
                              sr.backdoor)
              ELSE [gate |-> NoDraws(n), srng |-> sr.backdoor]
        r1 == SubstitutionEngine_backdoorStage(adjusted, e.style, gb.gate)
        gt == IF TritoneEnabled(e.style)
              THEN streamGate(n, TritoneDraws(r1), e.style.tritoneSubProb,
                              sr.tritone)
              ELSE [gate |-> NoDraws(n), srng |-> sr.tritone]
        r2 == SubstitutionEngine_tritoneStage(r1, e.style, gt.gate)
        gc == IF ColtraneEnabled(e.style)
              THEN coltraneDraws(r2, ColtraneProb(e.style), sr.coltrane, 1,
                                 NoDraws(n))
              ELSE [gate |-> NoDraws(n), srng |-> sr.coltrane]
        r3 == SubstitutionEngine_apply(adjusted, e.style, gb.gate, gt.gate,
                                       gc.gate)
    IN [chords |-> resizeDown(IF e.style.extensionLevel > 50
                              THEN VoiceLeadingOptimizer_optimize(r3, 50)
                              ELSE r3,
                              len),
        rng |-> d.rng,
        static |-> [derive |-> d.srng, adjustLength |-> pad.srng,
                    backdoor |-> gb.srng, tritone |-> gt.srng,
                    coltrane |-> gc.srng]]

\* The stages of generate after the derivation d.
StyleEngine_adjustRun(e, len, k, sr, d) ==
    LET pad == IF Len(d.chords) >= len
               THEN [gate |-> NoDraws(len), srng |-> sr.adjustLength]
               ELSE padDraws(Len(d.chords), len, e.style.turnaroundProb,
                             sr.adjustLength, NoDraws(len))
    IN CHOOSE r \in {StyleEngine_substituteRun(x.e, len, k, x.sr, x.d, x.pad,
                                               x.adjusted) :
                        x \in {[e |-> e, sr |-> sr, d |-> d, pad |-> pad,
                                adjusted |-> StyleEngine_adjustLength(
                                                 d.chords, len, k, pad.gate)]}} :
           TRUE

\* StyleEngine::generate(len, k) on the engine e = [style, weights, rng]
\* with the static generators in the states sr: the chords returned, the
\* engine's generator and the static generators afterwards.
StyleEngine_generateRun(e, len, k, sr) ==
    LET gk == HarmonyGenerator_setKey(k)
    IN CHOOSE r \in {StyleEngine_adjustRun(x.e, len, k, x.sr, x.d) :
                        x \in {[e |-> e, sr |-> sr,
                                d |-> deriveRun(e.weights,
                                          StyleEngine_maxDepth(len),
                                          <<Frame(NTSymbol("S", SomeKey(gk)),
                                                  0, gk)>>,
                                          << >>, e.rng, sr.derive)]}} :
           TRUE

(***************************************************************************)
(* SpecTwo: two default-constructed engines in one process, seeded         *)
(* differently, calling generate in any interleaving.  solo follows the    *)
(* first engine through the same calls with the second engine absent.      *)
(***************************************************************************)
MaxCalls == 3
StaticSeeds == {0, 3}

Engine(st, r) == [style |-> st, weights |-> StyledGrammar[st], rng |-> r]

TwoEngines ==
    /\ style = StyleVector_validate(BEBOP)
    /\ weights = StyledGrammar[style]
    /\ grammarRng \in RngStates
    /\ generatorRng = grammarRng
    /\ peer = Engine(style, (generatorRng + 1) % RngMod)
    /\ staticRng \in [StaticGens -> StaticSeeds]
    /\ solo = [rng |-> generatorRng, static |-> staticRng, chords |-> << >>]
    /\ seed = NoSeed
    /\ length = 0
    /\ key = 0
    /\ maxDepth = 6
    /\ stack = << >>
    /\ substituted = << >>
    /\ prev = NoCalls
    /\ leaves = << >>
    /\ pc = "idle"
    /\ chords = << >>
    /\ input = << >>
    /\ gate = NoGate
    /\ cost = 0
    /\ iters = 0

twoVars == <<input, gate, cost, style, weights, grammarRng, seed, maxDepth,
             stack, substituted, prev, leaves>>

\* generate on the first engine; iters counts the calls of both.
FirstGenerate ==
    /\ iters < MaxCalls
    /\ \E len \in 1..2 :
         LET real == StyleEngine_generateRun(Engine(style, generatorRng),
                                             len, 0, staticRng)
             alone == StyleEngine_generateRun(Engine(style, solo.rng),
                                              len, 0, solo.static)
         IN /\ chords' = real.chords
            /\ generatorRng' = real.rng
            /\ staticRng' = real.static
            /\ solo' = alone
            /\ length' = len
    /\ key' = 0
    /\ iters' = iters + 1
    /\ pc' = "done"
    /\ UNCHANGED <<peer, twoVars>>

\* generate on the second engine.
PeerGenerate ==
    /\ iters < MaxCalls
    /\ \E len \in 1..2 :
         LET real == StyleEngine_generateRun(peer, len, 0, staticRng)
         IN /\ peer' = [peer EXCEPT !.rng = real.rng]
            /\ staticRng' = real.static
    /\ iters' = iters + 1
    /\ pc' = "peer"
    /\ UNCHANGED <<chords, generatorRng, solo, length, key, twoVars>>

NextTwo == FirstGenerate \/ PeerGenerate

SpecTwo == TwoEngines /\ [][NextTwo]_vars

(***************************************************************************)
(* SpecGen: a HarmonyGenerator on its own, built from a PCFG that holds    *)
(* the base rules under any start symbol and from a GeneratorConfig with   *)
(* any key and a small maxDepth (the constructor takes the config as it    *)
(* is given, 0 included).                                                  *)
(***************************************************************************)
MaxConfigDepth == 2

HarmonyGenerator_ctor ==
    /\ weights = createBaseGrammar
    /\ generatorRng \in RngStates
    /\ grammarRng = generatorRng
    /\ style = BEBOP
    /\ seed = NoSeed
    /\ length = 0
    /\ key \in TestKeys
    /\ maxDepth \in 0..MaxConfigDepth
    /\ input \in NonTerminal
    /\ stack = << >>
    /\ substituted = << >>
    /\ prev = NoCalls
    /\ leaves = << >>
    /\ OneEngine
    /\ pc = "idle"
    /\ chords = << >>
    /\ gate = NoGate
    /\ cost = 0
    /\ iters = 0

\* generateWithTree, up to the first call of derive; input is the grammar's
\* start symbol.
HarmonyGenerator_generateWithTree ==
    /\ pc \in {"idle", "returned"}
    /\ stack' = <<Frame(NTSymbol(input, SomeKey(key)), 0, key)>>
    /\ chords' = << >>
    /\ leaves' = << >>
    /\ pc' = "derive"
    /\ UNCHANGED <<pureVars, style, weights, grammarRng, generatorRng, seed,
                   length, key, maxDepth, substituted, prev, sharedVars>>

\* generate returns the chords of the leaves.
HarmonyGenerator_generateReturn ==
    /\ pc = "derive"
    /\ stack = << >>
    /\ pc' = "returned"
    /\ UNCHANGED <<chords, pureVars, engineVars>>

NextGen ==
    \/ HarmonyGenerator_generateWithTree
    \/ HarmonyGenerator_derive
    \/ HarmonyGenerator_generateReturn

SpecGen == HarmonyGenerator_ctor /\ [][NextGen]_vars

(***************************************************************************)
(* SpecEdit: the manual chord edit.  A text is a sequence of characters;   *)
(* the characters tried hold no '/', '5', '9', '1' or '3', so a parsed     *)
(* chord has no bass note, extension or alteration.                        *)
(***************************************************************************)
MaxTextLen == 3

Chars == {"C", "G", "H", "b", "m", "7", " "}

Texts == SeqsUpTo(Chars, MaxTextLen)

\* juce::String::trim
RECURSIVE trimStart(_)
trimStart(t) == IF t # << >> /\ Head(t) = " " THEN trimStart(Tail(t)) ELSE t

RECURSIVE trimEnd(_)
trimEnd(t) ==
    IF t # << >> /\ t[Len(t)] = " " THEN trimEnd(SubSeq(t, 1, Len(t) - 1)) ELSE t

trim(t) == trimEnd(trimStart(t))

nameMap ==
    << <<"C", 0>>, <<"B#", 0>>, <<"C#", 1>>, <<"Db", 1>>, <<"D", 2>>,
       <<"D#", 3>>, <<"Eb", 3>>, <<"E", 4>>, <<"Fb", 4>>, <<"F", 5>>,
       <<"E#", 5>>, <<"F#", 6>>, <<"Gb", 6>>, <<"G", 7>>, <<"G#", 8>>,
       <<"Ab", 8>>, <<"A", 9>>, <<"A#", 10>>, <<"Bb", 10>>, <<"B", 11>>,
       <<"Cb", 11>> >>

PitchClass_fromName(name) ==
    IF \E i \in 1..Len(nameMap) : nameMap[i][1] = name
    THEN PitchClass(nameMap[CHOOSE i \in 1..Len(nameMap) : nameMap[i][1] = name][2])
    ELSE PitchClass(0)

\* The match of ^([A-G][#b]?) as a number of characters, 0 when none.
rootMatch(symbol) ==
    IF symbol = << >> \/ Head(symbol) \notin {"A", "B", "C", "D", "E", "F", "G"}
    THEN 0
    ELSE IF Len(symbol) >= 2 /\ symbol[2] \in {"#", "b"} THEN 2 ELSE 1

patterns ==
    << [pattern |-> <<"m", "a", "j", "7">>,      quality |-> "MAJ7"],
       [pattern |-> <<"M", "a", "j", "7">>,      quality |-> "MAJ7"],
       [pattern |-> <<"M", "7">>,                quality |-> "MAJ7"],
       [pattern |-> <<"m", "M", "a", "j", "7">>, quality |-> "MIN_MAJ7"],
       [pattern |-> <<"m", "7", "b", "5">>,      quality |-> "HDIM7"],
       [pattern |-> <<"m", "7", "-", "5">>,      quality |-> "HDIM7"],
       [pattern |-> <<"d", "i", "m", "7">>,      quality |-> "DIM7"],
       [pattern |-> <<"m", "7">>,                quality |-> "MIN7"],
       [pattern |-> <<"m", "i", "n", "7">>,      quality |-> "MIN7"],
       [pattern |-> <<"-", "7">>,                quality |-> "MIN7"],
       [pattern |-> <<"m", "6">>,                quality |-> "MIN6"],
       [pattern |-> <<"6">>,                     quality |-> "MAJ6"],
       [pattern |-> <<"a", "u", "g">>,           quality |-> "AUG"],
       [pattern |-> <<"+">>,                     quality |-> "AUG"],
       [pattern |-> <<"s", "u", "s", "4">>,      quality |-> "SUS4"],
       [pattern |-> <<"s", "u", "s", "2">>,      quality |-> "SUS2"],
       [pattern |-> <<"7">>,                     quality |-> "DOM7"] >>

\* remainder.find(p) == 0
StartsWith(remainder, p) ==
    Len(remainder) >= Len(p) /\ SubSeq(remainder, 1, Len(p)) = p

\* The chord fromString returns, as a one-element sequence; << >> would be a
\* thrown exception, which no path of the function raises.
ChordSymbol_fromString(symbol) ==
    IF symbol = << >> \/ rootMatch(symbol) = 0
    THEN <<ChordSymbol(PitchClass(0), "MAJ7")>>
    ELSE LET n == rootMatch(symbol)
             rootStr == IF n = 2 THEN symbol[1] \o symbol[2] ELSE symbol[1]
             remainder == SubSeq(symbol, n + 1, Len(symbol))
             hits == {i \in 1..Len(patterns) :
                         StartsWith(remainder, patterns[i].pattern)}
             quality == IF hits = {} THEN "DOM7"
                        ELSE patterns[CHOOSE i \in hits :
                                         \A j \in hits : i <= j].quality
         IN <<ChordSymbol(PitchClass_fromName(rootStr), quality)>>

\* input.text is the typed text, input.index editingChordIndex_; chords is
\* currentProgression_, substituted the progression before the edit and
\* gate the text of the status label.
InitEdit ==
    /\ chords \in {<<ChordSymbol(2, "MIN7")>>,
                   <<ChordSymbol(2, "MIN7"), ChordSymbol(7, "DOM7")>>}
    /\ substituted = chords
    /\ input \in [text : Texts, index : -1..2]
    /\ gate = "Ready"
    /\ pc = "editing"
    /\ cost = 0
    /\ iters = 0
    /\ style = BEBOP
    /\ weights = createBaseGrammar
    /\ grammarRng = 0
    /\ generatorRng = 0
    /\ seed = NoSeed
    /\ length = 0
    /\ key = 0
    /\ maxDepth = 0
    /\ stack = << >>
    /\ prev = NoCalls
    /\ leaves = << >>
    /\ OneEngine

MainComponent_parseChordInput ==
    /\ pc = "editing"
    /\ pc' = "edited"
    /\ LET trimmed == trim(input.text)
           newChord == ChordSymbol_fromString(trimmed)
       IN IF input.index < 0 \/ input.index >= Len(chords) \/ trimmed = << >>
          THEN UNCHANGED <<chords, gate>>
          ELSE IF newChord # << >>
               THEN /\ chords' = [chords EXCEPT ![input.index + 1] = newChord[1]]
                    /\ gate' = "Chord updated"
               ELSE /\ gate' = "Invalid chord"
                    /\ UNCHANGED chords
    /\ UNCHANGED <<input, cost, iters, engineVars>>

NextEdit == MainComponent_parseChordInput

SpecEdit == InitEdit /\ [][NextEdit]_vars

(***************************************************************************)
(* SpecStyle: the operations that set the style of a StyleEngine, from     *)
(* the constructor that takes a StyleVector onwards.                       *)
(***************************************************************************)
\* A StyleVector a caller can build: every field is a public member.
OutOfRange ==
    [BEBOP EXCEPT !.iiVPreference = 200, !.tritoneSubProb = -50,
                  !.turnaroundProb = 150, !.dominantChainDepth = 0,
                  !.prolongationDepth = -1]

TestStyles == {BEBOP, MODAL, OutOfRange}

\* Arguments of the scalar setters, in hundredths.
TestValues == {-50, 150}

StyleEngine_rebuild_drift(st) ==
    /\ weights' = PCFG_normalize([i \in RuleIds |-> StyledWeight(st, i, weights)])
    /\ \E r \in RngStates : grammarRng' = r /\ generatorRng' = r
    /\ seed' = NoSeed

\* updateGrammar for any style_.
StyleEngine_rebuild(st) ==
    /\ weights' = styleToPCFG(st)
    /\ \E r \in RngStates : grammarRng' = r /\ generatorRng' = r
    /\ seed' = NoSeed

\* StyleEngine(const StyleVector& style)
StyleEngine_ctorStyle ==
    /\ style \in TestStyles
    /\ weights = styleToPCFG(style)
    /\ grammarRng \in RngStates
    /\ generatorRng = grammarRng
    /\ seed = NoSeed
    /\ length = 0
    /\ key = 0
    /\ maxDepth = 6
    /\ stack = << >>
    /\ substituted = << >>
    /\ prev = NoCalls
    /\ leaves = << >>
    /\ OneEngine
    /\ pc = "constructed"
    /\ chords = << >>
    /\ input = << >>
    /\ gate = NoGate
    /\ cost = 0
    /\ iters = 0

styleVars == <<chords, pureVars, length, key, maxDepth, stack, substituted,
               prev, leaves, sharedVars>>

StyleEngine_setStyle ==
    /\ \E st \in TestStyles :
         /\ style' = StyleVector_validate(st)
         /\ StyleEngine_rebuild(style')
    /\ pc' = "setStyle"
    /\ UNCHANGED styleVars

StyleEngine_setStyleByIdAny ==
    /\ \E id \in TestStyleIds :
         /\ style' = StyleVector_validate(getStyleById(id))
         /\ StyleEngine_rebuild(style')
    /\ pc' = "setStyleById"
    /\ UNCHANGED styleVars

StyleEngine_setTritoneSubProb ==
    /\ \E value \in TestValues :
         /\ style' = [style EXCEPT !.tritoneSubProb = clamp(value, 0, 100)]
         /\ StyleEngine_rebuild(style')
    /\ pc' = "setTritoneSubProb"
    /\ UNCHANGED styleVars

StyleEngine_setIiVPreference ==
    /\ \E value \in TestValues :
         /\ style' = [style EXCEPT !.iiVPreference = clamp(value, 0, 100)]
         /\ StyleEngine_rebuild(style')
    /\ pc' = "setIiVPreference"
    /\ UNCHANGED styleVars

StyleEngine_setModalInterchange ==
    /\ \E value \in TestValues :
         /\ style' = [style EXCEPT !.modalInterchange = clamp(value, 0, 100)]
         /\ StyleEngine_rebuild(style')
    /\ pc' = "setModalInterchange"
    /\ UNCHANGED styleVars

\* No call of updateGrammar.
StyleEngine_setExtensionLevel ==
    /\ \E value \in TestValues :
         style' = [style EXCEPT !.extensionLevel = clamp(value, 0, 100)]
    /\ pc' = "setExtensionLevel"
    /\ UNCHANGED <<weights, grammarRng, generatorRng, seed, styleVars>>

NextStyle ==
    \/ StyleEngine_setStyle
    \/ StyleEngine_setStyleByIdAny
    \/ StyleEngine_setTritoneSubProb
    \/ StyleEngine_setIiVPreference
    \/ StyleEngine_setModalInterchange
    \/ StyleEngine_setExtensionLevel

SpecStyle == StyleEngine_ctorStyle /\ [][NextStyle]_vars

(***************************************************************************)
(* SpecConv: the pure operations of the grammar layer, each applied to     *)
(* inputs from small sets: PitchClass construction and transposition,      *)
(* terminal-to-chord conversion, the right-hand-side loop of derive and    *)
(* sampleRule on a grammar with any weights.  Each behaviour is one        *)
(* application.                                                            *)
(***************************************************************************)
MaxInt == 13
MaxRhs == 2

TestInts == (0 - MaxInt)..MaxInt

TestDegrees == {"I", "ii", "V", "bVII", "V/V", "V/ii", "V/IV"}
\* "sus4" and "alt" are not in the lookup of stringToChordQuality.
TestLabels == {"maj7", "min7", "7", "m7b5", "sus4", "alt"}
TestTerminals == {TerminalSymbol(d, q) : d \in TestDegrees, q \in TestLabels}

TestSymbols ==
    {NT("T"), NTSymbol("D", SomeKey(5)), TerminalSymbol("ii", "min7"),
     TerminalSymbol("V", "7"), TerminalSymbol("V/V", "7"),
     TerminalSymbol("V/ii", "7"), TerminalSymbol("V/IV", "7")}

TestRhs == SeqsUpTo(TestSymbols, MaxRhs) \ {<< >>}

SampleLevels == {0, Scale \div 4}

InitConv ==
    /\ pc = "ready"
    /\ input = << >>
    /\ chords = << >>
    /\ stack = << >>
    /\ cost = 0
    /\ weights = createBaseGrammar
    /\ generatorRng = 0
    /\ grammarRng = 0
    /\ gate = NoGate
    /\ iters = 0
    /\ style = BEBOP
    /\ seed = NoSeed
    /\ length = 0
    /\ key = 0
    /\ maxDepth = 0
    /\ substituted = << >>
    /\ prev = NoCalls
    /\ leaves = << >>
    /\ OneEngine

convVars == <<gate, iters, style, seed, length, key, maxDepth, substituted,
              prev, leaves, grammarRng, sharedVars>>

\* PitchClass(value); cost is value_.
NewPitchClass ==
    /\ pc = "ready"
    /\ \E value \in TestInts :
         /\ input' = [value |-> value]
         /\ cost' = PitchClass(value)
    /\ pc' = "PitchClass"
    /\ chords' = << >>
    /\ stack' = << >>
    /\ weights' = createBaseGrammar
    /\ generatorRng' = 0
    /\ UNCHANGED convVars

\* p.transpose(semitones) for a PitchClass p; cost is the result's value_.
Transpose ==
    /\ pc = "ready"
    /\ \E value \in TestInts, semitones \in TestInts :
         /\ input' = [p |-> PitchClass(value), semitones |-> semitones]
         /\ cost' = PitchClass_transpose(PitchClass(value), semitones)
    /\ pc' = "transpose"
    /\ chords' = << >>
    /\ stack' = << >>
    /\ weights' = createBaseGrammar
    /\ generatorRng' = 0
    /\ UNCHANGED convVars

\* terminalToChord(terminal, key)
TerminalToChord ==
    /\ pc = "ready"
    /\ \E terminal \in TestTerminals, k \in 0..11 :
         /\ input' = [terminal |-> terminal, key |-> k]
         /\ chords' = <<HarmonyGenerator_terminalToChord(terminal, k)>>
    /\ pc' = "terminalToChord"
    /\ cost' = 0
    /\ stack' = << >>
    /\ weights' = createBaseGrammar
    /\ generatorRng' = 0
    /\ UNCHANGED convVars

\* The loop of derive over the right-hand side of the rule it applies:
\* stack holds the calls it makes.
DeriveChildren ==
    /\ pc = "ready"
    /\ \E rhs \in TestRhs, depth \in 0..1, currentKey \in TestKeys :
         /\ input' = [rhs |-> rhs, depth |-> depth, key |-> currentKey]
         /\ stack' = ChildFrames(rhs, depth, currentKey)
    /\ pc' = "children"
    /\ cost' = 0
    /\ chords' = << >>
    /\ weights' = createBaseGrammar
    /\ generatorRng' = 0
    /\ UNCHANGED convVars

\* sampleRule(nt) on a grammar whose rules of nt have any of the weights
\* setProb can give them; cost is the rule returned.
SampleRule ==
    /\ pc = "ready"
    /\ \E nt \in NonTerminal, s \in RngStates :
         \E lv \in [1..Len(PCFG_getRules(nt)) -> SampleLevels] :
            LET w == [i \in RuleIds |->
                         IF BaseRules[i].lhs = nt
                         THEN lv[CHOOSE j \in 1..Len(PCFG_getRules(nt)) :
                                     PCFG_getRules(nt)[j] = i]
                         ELSE createBaseGrammar[i]]
            IN /\ input' = [nt |-> nt, rng |-> s]
               /\ weights' = w
               /\ cost' = PCFG_sampleRule(w, nt, s)
               /\ generatorRng' = IF PCFG_getRules(nt) = << >> THEN s
                                  ELSE NextRng(s)
    /\ pc' = "sampleRule"
    /\ chords' = << >>
    /\ stack' = << >>
    /\ UNCHANGED convVars

NextConv ==
    \/ NewPitchClass
    \/ Transpose
    \/ TerminalToChord
    \/ DeriveChildren
    \/ SampleRule

SpecConv == InitConv /\ [][NextConv]_vars

(***************************************************************************)
(* SpecPipe: SubstitutionEngine::apply on any short progression of a few   *)
(* chords around C, under styles that enable none, one, two and all three  *)
(* of its stages.  gate keeps the outcomes of the three stages' draws and  *)
(* stack the value of result after the backdoor and the tritone stage.     *)
(***************************************************************************)
PipeChords ==
    {ChordSymbol(2, "MIN7"), ChordSymbol(7, "DOM7"), ChordSymbol(0, "MAJ7"),
     ChordSymbol(0, "DOM7"), ChordSymbol(5, "MAJ6")}

PipeProgressions == SeqsUpTo(PipeChords, MaxProgLen)

PipeStyles == {SWING, BEBOP, COOL, POSTBOP}

InitPipe ==
    /\ input \in PipeProgressions
    /\ style \in PipeStyles
    /\ chords = input
    /\ pc = "ready"
    /\ gate = NoGate
    /\ cost = 0
    /\ iters = 0
    /\ weights = createBaseGrammar
    /\ grammarRng = 0
    /\ generatorRng = 0
    /\ seed = NoSeed
    /\ length = 0
    /\ key = 0
    /\ maxDepth = 0
    /\ stack = << >>
    /\ substituted = << >>
    /\ prev = NoCalls
    /\ leaves = << >>
    /\ OneEngine

SubstitutionEngine_applyAll ==
    /\ pc = "ready"
    /\ \E gb \in Gates(Len(input),
                       IF BackdoorEnabled(style) THEN BackdoorDraws(input) ELSE {},
                       BackdoorProb(style)) :
         LET r1 == SubstitutionEngine_backdoorStage(input, style, gb)
         IN \E gt \in Gates(Len(r1),
                       IF TritoneEnabled(style) THEN TritoneDraws(r1) ELSE {},
                       style.tritoneSubProb) :
              LET r2 == SubstitutionEngine_tritoneStage(r1, style, gt)
              IN \E gc \in Gates(Len(r2),
                       IF ColtraneEnabled(style) THEN ColtraneDraws(r2) ELSE {},
                       ColtraneProb(style)) :
                   /\ chords' = SubstitutionEngine_apply(input, style, gb, gt, gc)
                   /\ gate' = [backdoor |-> gb, tritone |-> gt, coltrane |-> gc]
                   /\ stack' = <<r1, r2>>
    /\ pc' = "applied"
    /\ UNCHANGED <<input, cost, iters, style, weights, grammarRng, generatorRng,
                   seed, length, key, maxDepth, substituted, prev, leaves,
                   sharedVars>>

NextPipe == SubstitutionEngine_applyAll

SpecPipe == InitPipe /\ [][NextPipe]_vars

(***************************************************************************)
(* SpecTwice: one transform applied to a progression and then again to its *)
(* own output.  substituted is the output of the first application,        *)
(* gate.first and gate.second the outcomes of the draws of the two.        *)
(***************************************************************************)
TwiceProgressions == SeqsUpTo(PipeChords, MaxProgLen + 1)

InitTwice ==
    /\ input \in TwiceProgressions
    /\ chords = input
    /\ pc = "ready"
    /\ gate = NoGate
    /\ cost = 0
    /\ iters = 0
    /\ EngineUnused

twiceVars == <<input, cost, iters, engineVars>>

BackdoorOnce ==
    /\ pc = "ready"
    /\ \E p \in Probabilities :
         \E g \in Gates(Len(input), BackdoorDraws(input), p) :
            /\ chords' = BackdoorSubstitution_apply(input, g)
            /\ gate' = [first |-> g]
    /\ pc' = "backdoor"
    /\ UNCHANGED twiceVars

TritoneOnce ==
    /\ pc = "ready"
    /\ \E p \in Probabilities :
         \E g \in Gates(Len(input), TritoneDraws(input), p) :
            /\ chords' = TritoneSubstitution_apply(input, g)
            /\ gate' = [first |-> g]
    /\ pc' = "tritone"
    /\ UNCHANGED twiceVars

ColtraneOnce ==
    /\ pc = "ready"
    /\ \E p \in Probabilities :
         \E g \in Gates(Len(input), ColtraneDraws(input), p) :
            /\ chords' = ColtraneSubstitution_apply(input, g)
            /\ gate' = [first |-> g]
    /\ pc' = "coltrane"
    /\ UNCHANGED twiceVars

\* substituted is engineVars' only variable these actions change.
twiceRest == <<input, cost, iters, style, weights, grammarRng, generatorRng,
               seed, length, key, maxDepth, stack, prev, leaves, sharedVars>>

BackdoorAgain ==
    /\ pc = "backdoor"
    /\ \E p \in Probabilities :
         \E g \in Gates(Len(chords), BackdoorDraws(chords), p) :
            /\ chords' = BackdoorSubstitution_apply(chords, g)
            /\ gate' = [first |-> gate.first, second |-> g]
    /\ substituted' = chords
    /\ pc' = "backdoor2"
    /\ UNCHANGED twiceRest

TritoneAgain ==
    /\ pc = "tritone"
    /\ \E p \in Probabilities :
         \E g \in Gates(Len(chords), TritoneDraws(chords), p) :
            /\ chords' = TritoneSubstitution_apply(chords, g)
            /\ gate' = [first |-> gate.first, second |-> g]
    /\ substituted' = chords
    /\ pc' = "tritone2"
    /\ UNCHANGED twiceRest

ColtraneAgain ==
    /\ pc = "coltrane"
    /\ \E p \in Probabilities :
         \E g \in Gates(Len(chords), ColtraneDraws(chords), p) :
            /\ chords' = ColtraneSubstitution_apply(chords, g)
            /\ gate' = [first |-> gate.first, second |-> g]
    /\ substituted' = chords
    /\ pc' = "coltrane2"
    /\ UNCHANGED twiceRest

NextTwice ==
    \/ BackdoorOnce
    \/ TritoneOnce
    \/ ColtraneOnce
    \/ BackdoorAgain
    \/ TritoneAgain
    \/ ColtraneAgain

SpecTwice == InitTwice /\ [][NextTwice]_vars

(***************************************************************************)
(* SpecRepeat: repeated calls of generate on one Bebop engine in C, each   *)
(* directly after seeding the grammar; the last two completed calls kept.  *)
(***************************************************************************)
NextRepeat ==
    \/ StyleEngine_setSeed
    \/ StyleEngine_generate(1..2, {0}, TRUE)
    \/ HarmonyGenerator_derive
    \/ StyleEngine_adjustLengthStep
    \/ SubstitutionEngine_applyStep
    \/ StyleEngine_return(TRUE)

SpecRepeat == StyleEngine_ctor /\ [][NextRepeat]_vars

(***************************************************************************)
(* SpecBebop4: generate(4, 0) on a Bebop engine, seeded or not.            *)
(***************************************************************************)
NextBebop4 ==
    \/ StyleEngine_setStyleById({1})
    \/ StyleEngine_setSeed
    \/ StyleEngine_generate({4}, {0}, FALSE)
    \/ HarmonyGenerator_derive
    \/ StyleEngine_adjustLengthStep
    \/ SubstitutionEngine_applyStep
    \/ StyleEngine_return(FALSE)

SpecBebop4 == StyleEngine_ctor /\ [][NextBebop4]_vars

(***************************************************************************)
(* Properties.                                                             *)
(***************************************************************************)
Dm7   == ChordSymbol(2, "MIN7")
G7    == ChordSymbol(7, "DOM7")
C7    == ChordSymbol(0, "DOM7")
Cmaj7 == ChordSymbol(0, "MAJ7")
Bb7   == ChordSymbol(10, "DOM7")
Db7   == ChordSymbol(1, "DOM7")

IsTonicQuality(c) == c.quality \in {"MAJ7", "MAJ6"}

\* C3: the total voice-leading cost of the progression optimize returns is
\* at most the total cost of the progression it was given, for every input
\* and every maxIterations >= 0.
C3_OptimizeMonotone ==
    pc = "optimized" =>
        progressionVoiceLeadingCost(chords) <= progressionVoiceLeadingCost(input)

\* The optimizer ran at least one iteration over a progression that holds a
\* dominant chord with a neighbour, so a move was tried.
C3_Witness ==
    /\ pc = "optimized"
    /\ iters >= 1
    /\ Len(input) >= 2
    /\ \E i \in 1..Len(input) : input[i].quality = "DOM7"

\* C5 as stated: the cost is >= 0 and is 0 iff both pairings are unison.
C5_Original ==
    pc = "cost" =>
        /\ cost >= 0
        /\ (cost = 0) <=> (/\ pairingCost1(input[1], input[2]) = 0
                           /\ pairingCost2(input[1], input[2]) = 0)

\* C5 amended: voiceLeadingCost(A, B) >= 0 for all chord pairs, and it is 0
\* iff at least one of the two guide-tone pairings is unison.
C5_CostZeroIffSomePairingUnison ==
    pc = "cost" =>
        /\ cost >= 0
        /\ (cost = 0) <=> (\/ pairingCost1(input[1], input[2]) = 0
                           \/ pairingCost2(input[1], input[2]) = 0)

\* A zero cost reached through the voice exchange alone (G7 -> Db7).
C5_Witness ==
    /\ pc = "cost"
    /\ input = <<G7, Db7>>
    /\ cost = 0
    /\ pairingCost1(input[1], input[2]) # 0

\* Positions at which Coltrane substitution fired: the gate passed on a
\* window minor-seventh, dominant-seventh, major-seventh/sixth with roots
\* tonic+2, tonic+7, tonic.  Two such windows never overlap.
ColtraneFired ==
    {i \in 1..Len(input) :
        /\ i + 2 <= Len(input)
        /\ gate[i]
        /\ input[i].quality = "MIN7"
        /\ input[i + 1].quality = "DOM7"
        /\ IsTonicQuality(input[i + 2])
        /\ input[i].root = (input[i + 2].root + 2) % 12
        /\ input[i + 1].root = (input[i + 2].root + 7) % 12}

FirstFired == CHOOSE i \in ColtraneFired : \A j \in ColtraneFired : i <= j

\* C6 as stated: a fired window is replaced by exactly six chords, the first
\* the original ii and the last the original I.
C6_Original ==
    (pc = "coltrane" /\ ColtraneFired # {}) =>
        /\ Len(chords) = Len(input) + 3 * Cardinality(ColtraneFired)
        /\ chords[FirstFired] = input[FirstFired]
        /\ chords[FirstFired + 5] = input[FirstFired + 2]

\* C6 amended: a fired window is replaced by exactly seven chords: the
\* original ii first, the original V sixth and the original I last.
C6_SevenChords ==
    (pc = "coltrane" /\ ColtraneFired # {}) =>
        /\ Len(chords) = Len(input) + 4 * Cardinality(ColtraneFired)
        /\ chords[FirstFired] = input[FirstFired]
        /\ chords[FirstFired + 5] = input[FirstFired + 1]
        /\ chords[FirstFired + 6] = input[FirstFired + 2]

C6_Witness ==
    /\ pc = "coltrane"
    /\ input = <<Dm7, G7, Cmaj7>>
    /\ gate[1]
    /\ Len(chords) = 7

\* C7: when backdoor substitution fires on a dominant-seventh followed by a
\* major-seventh or major-sixth chord rooted a fifth below it, the dominant
\* becomes a dominant-seventh rooted (target root + 10) mod 12 and the
\* target chord is unchanged.
C7_Backdoor ==
    pc = "backdoor" =>
        \A i \in 1..Len(input) :
            (/\ i + 1 <= Len(input)
             /\ gate[i]
             /\ input[i].quality = "DOM7"
             /\ IsTonicQuality(input[i + 1])
             /\ input[i].root = (input[i + 1].root + 7) % 12)
            => /\ chords[i] = ChordSymbol((input[i + 1].root + 10) % 12, "DOM7")
               /\ chords[i + 1] = input[i + 1]

\* [G7, Cmaj7] has become [Bb7, Cmaj7].
C7_Witness ==
    /\ pc = "backdoor"
    /\ input = <<G7, Cmaj7>>
    /\ gate[1]
    /\ chords = <<Bb7, Cmaj7>>

\* C9: tritone substitution applied twice to a dominant-seventh chord gives
\* back its root and its quality.
C9_TritoneInvolution ==
    (pc \in {"sub2", "ts2"} /\ input[1].quality = "DOM7") =>
        /\ chords[1].root = input[1].root
        /\ chords[1].quality = input[1].quality

C9_Witness ==
    /\ pc = "sub2"
    /\ input[1] = G7
    /\ chords[1] = G7

\* C10: a progression none of whose three-chord windows ends on a
\* tonic-quality chord is returned unchanged by Coltrane substitution,
\* whatever the gate draws.
C10_NonMatchUnchanged ==
    (/\ pc = "coltrane"
     /\ \A i \in 1..Len(input) :
            i + 2 <= Len(input) => ~IsTonicQuality(input[i + 2]))
    => chords = input

\* [Dm7, G7, C7] with the gate passed at the first position.
C10_Witness ==
    /\ pc = "coltrane"
    /\ input = <<Dm7, G7, C7>>
    /\ gate[1]
    /\ chords = input

\* C2: a completed generate(length, key) with length >= 1 returns exactly
\* length chords, whatever the derivation yielded and whatever the
\* substitution stage inserted.
C2_ExactLength ==
    pc = "done" => Len(chords) = length

\* A call whose derivation yielded another number of chords than asked for
\* and whose substitution stage grew the sequence beyond it.
C2_Witness ==
    /\ pc = "done"
    /\ Len(chords) = length
    /\ Len(input) # length
    /\ Len(substituted) > length

\* C4: after normalize(), the weights of every non-terminal whose rules had
\* a nonzero total sum to 1, within one rounding unit per rule.
C4_NormalizeSumsToOne ==
    pc = "normalized" =>
        \A nt \in NonTerminal :
            TotalOf(input, nt) > 0 =>
                /\ TotalOf(weights, nt) - Scale <= Len(PCFG_getRules(nt))
                /\ Scale - TotalOf(weights, nt) <= Len(PCFG_getRules(nt))

\* normalize() ran after a setProb, on a grammar in which one non-terminal's
\* weights summed to more than 1 and another's to less than 1 but not 0.
C4_Witness ==
    /\ pc = "normalized"
    /\ iters > 0
    /\ \E nt \in NonTerminal :
         TotalOf(input, nt) > Scale + Len(PCFG_getRules(nt))
    /\ \E nt \in NonTerminal :
         /\ TotalOf(input, nt) > 0
         /\ TotalOf(input, nt) < Scale - Len(PCFG_getRules(nt))


\* C1: two completed calls of generate with the same grammar seed, style,
\* key and length return the same chord sequence.
C1_Original ==
    (/\ Len(prev) = 2
     /\ prev[1].seed = prev[2].seed
     /\ prev[1].style = prev[2].style
     /\ prev[1].key = prev[2].key
     /\ prev[1].length = prev[2].length)
        => prev[1].chords = prev[2].chords

\* C8: a completed generate(4, 0) on the Bebop preset returns a sequence
\* whose first and last chord are tonic-quality chords rooted at C.
C8_Original ==
    (pc = "done" /\ style = BEBOP /\ key = 0 /\ length = 4) =>
        /\ IsTonicQuality(chords[1]) /\ chords[1].root = 0
        /\ IsTonicQuality(chords[Len(chords)]) /\ chords[Len(chords)].root = 0


\* C11: the chords the first engine's generate returns are the chords it
\* returns when the second engine never calls generate.
C11_Original ==
    pc = "done" => chords = solo.chords


\* The call of derive at the head of the stack finds no applicable rule: no
\* terminal-kind rule at the depth limit, or no rule at all below it.
Exhausted ==
    /\ pc = "derive"
    /\ stack # << >>
    /\ Head(stack).sym.kind = "NT"
    /\ IF Head(stack).depth >= maxDepth
       THEN TerminalRules(Head(stack).sym.nt) = << >>
       ELSE PCFG_getRules(Head(stack).sym.nt) = << >>

\* The key a call of derive resolves: the symbol's own key, else the key it
\* was passed.
ResolvedKey(f) ==
    IF f.sym.kind = "NT" /\ f.sym.key # NoKey THEN f.sym.key[1] ELSE f.key

\* The built-in default terminals.
C12_Default(nt) ==
    CASE nt = "D"    -> TerminalSymbol("V", "7")
      [] nt = "SD"   -> TerminalSymbol("IV", "maj7")
      [] nt = "PREP" -> TerminalSymbol("ii", "min7")
      [] nt = "PROL" -> TerminalSymbol("vi", "min7")
      [] OTHER       -> TerminalSymbol("I", "maj7")

EditApplies ==
    /\ input.index >= 0
    /\ input.index < Len(substituted)
    /\ trim(input.text) # << >>

\* C13: an edit whose text has no valid root letter leaves the progression
\* as it was.
C13_Original ==
    (pc = "edited" /\ EditApplies /\ rootMatch(trim(input.text)) = 0)
        => chords = substituted


\* C14: the style the engine holds has every field in its range, and the
\* grammar weights are those of the clamped style.
C14_Original ==
    /\ style = StyleVector_validate(style)
    /\ weights = styleToPCFG(StyleVector_validate(style))


\* C16: after a style-changing operation the grammar holds one weight per
\* base rule, and the weights are those styleToPCFG gives the current style,
\* whatever operations came before.
C16_GrammarFromStyle ==
    pc # "constructed" =>
        /\ DOMAIN weights = RuleIds
        /\ weights = styleToPCFG(style)

\* A style no preset and no single operation yields: three scalar setters
\* have acted, the last one without rebuilding the grammar.
C16_Witness ==
    /\ pc = "setExtensionLevel"
    /\ style = [BEBOP EXCEPT !.tritoneSubProb = 100, !.iiVPreference = 0,
                             !.extensionLevel = 100]


\* The quality labels stringToChordQuality looks up.
KnownLabels == {"maj7", "min7", "7", "m7b5", "dim7", "maj6", "min6"}

\* C15 as stated: a quality label outside the lookup yields a
\* dominant-seventh chord.
C15_Original ==
    (pc = "terminalToChord" /\ input.terminal.quality \notin KnownLabels)
        => (Len(chords) = 1 /\ chords[1].quality = "DOM7")

\* C15, amended: a quality label outside the lookup yields a chord, and its
\* quality is the lookup's default, major-seventh.
C15_DefaultQuality ==
    (pc = "terminalToChord" /\ input.terminal.quality \notin KnownLabels)
        => (Len(chords) = 1 /\ chords[1].quality = "MAJ7"
            /\ chords[1].root \in 0..11)

C15_Witness ==
    /\ pc = "terminalToChord"
    /\ input = [terminal |-> TerminalSymbol("V", "sus4"), key |-> 0]
    /\ chords = <<ChordSymbol(7, "MAJ7")>>

\* C17: sampleRule returns no rule exactly when the non-terminal has none,
\* and otherwise a rule of the non-terminal: one of positive weight if any
\* of its rules has positive weight.
C17_Original ==
    pc = "sampleRule" =>
        LET ruleList == PCFG_getRules(input.nt)
        IN /\ (cost = NoRule) <=> (ruleList = << >>)
           /\ cost # NoRule => \E j \in 1..Len(ruleList) : ruleList[j] = cost
           /\ (cost # NoRule /\ TotalOf(weights, input.nt) > 0)
                 => weights[cost] > 0

\* C18 as stated: a PitchClass value lies in [0,11).
C18_Original ==
    pc \in {"PitchClass", "transpose"} => (cost >= 0 /\ cost < 11)

\* C18, amended: a PitchClass value lies in 0..11, whatever integer is
\* given to the constructor or to transpose.
C18_InRange ==
    pc \in {"PitchClass", "transpose"} => cost \in 0..11

C18_Witness ==
    /\ pc = "transpose"
    /\ input = [p |-> 3, semitones |-> 0 - 4]
    /\ cost = 11

\* The key derive passes to a right-hand-side symbol under currentKey.
C19_KeyFor(rhsSym, currentKey) ==
    IF rhsSym.kind = "NT"
    THEN IF rhsSym.key # NoKey THEN rhsSym.key[1] ELSE currentKey
    ELSE CASE rhsSym.degree = "V/V"  -> (currentKey + 7) % 12
           [] rhsSym.degree = "V/ii" -> (currentKey + 2) % 12
           [] rhsSym.degree = "V/IV" -> (currentKey + 5) % 12
           [] OTHER                  -> currentKey

\* C19: each right-hand-side symbol is derived one level down under the
\* current key, except that a V/X terminal gets the current key moved by the
\* interval of X and a non-terminal with a key of its own gets that key;
\* the key of a symbol does not depend on the symbols before it.
C19_ChildKeys ==
    pc = "children" =>
        /\ Len(stack) = Len(input.rhs)
        /\ \A j \in 1..Len(stack) :
             /\ stack[j].key = C19_KeyFor(input.rhs[j], input.key)
             /\ stack[j].depth = input.depth + 1
             /\ ResolvedKey(stack[j]) = stack[j].key
             /\ IF input.rhs[j].kind = "NT"
                THEN stack[j].sym.nt = input.rhs[j].nt
                ELSE stack[j].sym = input.rhs[j]

\* A secondary dominant is followed by a plain non-terminal: the first call
\* is made in the key a fifth up, the second in the current key.
C19_Witness ==
    /\ pc = "children"
    /\ input.rhs = <<TerminalSymbol("V/V", "7"), NT("T")>>
    /\ input.key = 10
    /\ stack[1].key = 5
    /\ stack[2].key = 10

\* C20 as stated: the root is the key plus the table's interval of the
\* degree label, for the label V/V too.
C20_Original ==
    pc = "terminalToChord" =>
        /\ chords[1].root
              = (input.key + degreeToSemitones(input.terminal.degree)) % 12
        /\ chords[1].quality = stringToChordQuality(input.terminal.quality)

\* C20, amended: the root is the key plus the table's interval of the
\* degree label, except that a label holding a slash takes the interval of
\* V; the quality is the one the lookup gives the quality label.
C20_RootAndQuality ==
    pc = "terminalToChord" =>
        /\ chords[1].root
              = (input.key
                 + (IF input.terminal.degree \in {"V/V", "V/ii", "V/IV"}
                    THEN 7
                    ELSE degreeToSemitones(input.terminal.degree))) % 12
        /\ chords[1].quality = stringToChordQuality(input.terminal.quality)

\* The leaf V/V of a derivation in C: its key is G and its chord D7.
C20_Witness ==
    /\ pc = "terminalToChord"
    /\ input = [terminal |-> TerminalSymbol("V/V", "7"), key |-> 7]
    /\ chords = <<ChordSymbol(2, "DOM7")>>


\* The call of derive at the head of the stack is on a non-terminal at or
\* past the depth limit.
AtDepthLimit ==
    /\ pc = "derive"
    /\ stack # << >>
    /\ Head(stack).sym.kind = "NT"
    /\ Head(stack).depth >= maxDepth

\* C21: at or past the depth limit derive applies a rule of the
\* non-terminal whose kind is TERMINAL, and if there is none it applies no
\* rule and produces the default leaf.
C21_TerminalKindAtLimit ==
    [][AtDepthLimit =>
          LET f == Head(stack)
              kinds == {i \in RuleIds : /\ BaseRules[i].lhs = f.sym.nt
                                        /\ BaseRules[i].type = "TERMINAL"}
          IN IF kinds # {}
             THEN /\ \E i \in kinds :
                       stack' = ChildFrames(BaseRules[i].rhs, f.depth,
                                            ResolvedKey(f)) \o Tail(stack)
                  /\ leaves' = leaves
             ELSE /\ stack' = Tail(stack)
                  /\ Len(leaves') = Len(leaves) + 1]_vars

\* A generation from SD with the depth limit at the start symbol chose the
\* third of SD's three terminal-kind rules.
C21_Witness ==
    /\ pc = "returned"
    /\ input = "SD"
    /\ maxDepth = 0
    /\ leaves = << <<TerminalSymbol("iv", "min7"), key>> >>


\* C22: the progression apply returns is the Coltrane transform of the
\* tritone transform of the backdoor transform of its argument, each
\* transform run only if the style enables it and each on the output of the
\* one before.
C22_StageOrder ==
    pc = "applied" =>
        LET r1 == IF style.modalInterchange > 20
                  THEN BackdoorSubstitution_apply(input, gate.backdoor)
                  ELSE input
            r2 == IF style.tritoneSubProb > 10
                  THEN TritoneSubstitution_apply(r1, gate.tritone)
                  ELSE r1
            r3 == IF style.dominantChainDepth >= 4 /\ style.chromaticApproach > 40
                  THEN ColtraneSubstitution_apply(r2, gate.coltrane)
                  ELSE r2
        IN chords = r3

\* On ii-V-I in C with every draw passed, the backdoor stage turns G7 into
\* Bb7; the tritone stage, reading Bb7 before C, leaves it, and the Coltrane
\* stage, reading Dm7 Bb7 Cmaj7, finds no ii-V-I.
C22_Witness ==
    /\ pc = "applied"
    /\ style = POSTBOP
    /\ input = <<Dm7, G7, Cmaj7>>
    /\ gate.backdoor[2]
    /\ gate.coltrane[1]
    /\ chords = <<Dm7, Bb7, Cmaj7>>

\* The positions at which the backdoor stage replaced the chord.
BackdoorFired ==
    {i \in 1..Len(input) :
        /\ style.modalInterchange > 20
        /\ i + 1 <= Len(input)
        /\ gate.backdoor[i]
        /\ input[i].quality = "DOM7"
        /\ IsTonicQuality(input[i + 1])
        /\ input[i].root = (input[i + 1].root + 7) % 12}

\* C29: where the backdoor stage replaced a chord, the chord after the
\* tritone stage is still the backdoor dominant, rooted 10 semitones above
\* the tonic that follows it, and that tonic is the one the stage was given.
C29_BackdoorKept ==
    pc = "applied" =>
        \A i \in BackdoorFired :
            /\ stack[1][i] = ChordSymbol((input[i + 1].root + 10) % 12, "DOM7")
            /\ stack[1][i + 1] = input[i + 1]
            /\ (stack[1][i + 1].root - stack[1][i].root + 12) % 12 = 2
            /\ stack[2][i] = stack[1][i]

\* G7 Cmaj7 under a style with both stages enabled: the backdoor draw passed
\* and so did the tritone draw on the Bb7 it produced.
C29_Witness ==
    /\ pc = "applied"
    /\ style = COOL
    /\ input = <<G7, Cmaj7>>
    /\ gate.backdoor[1]
    /\ gate.tritone[1]
    /\ chords = <<Bb7, Cmaj7>>


\* The precondition of the tritone transform at position i of p.
TritoneMatch(p, i) ==
    /\ p[i].quality = "DOM7"
    /\ i + 1 <= Len(p)
    /\ (p[i + 1].root - p[i].root + 12) % 12 \in {5, 7}

\* The precondition of the backdoor transform at position i of p.
BackdoorMatch(p, i) ==
    /\ i + 1 <= Len(p)
    /\ p[i].quality = "DOM7"
    /\ IsTonicQuality(p[i + 1])
    /\ p[i].root = (p[i + 1].root + 7) % 12

\* The precondition of the Coltrane transform at position i of p.
ColtraneMatch(p, i) ==
    /\ i + 2 <= Len(p)
    /\ p[i].quality = "MIN7"
    /\ p[i + 1].quality = "DOM7"
    /\ IsTonicQuality(p[i + 2])
    /\ p[i].root = (p[i + 2].root + 2) % 12
    /\ p[i + 1].root = (p[i + 2].root + 7) % 12

\* out holds the chords of p that lie in no window starting at a position
\* of F, in their order, four chords further on for each window before.
OutsideKept(p, F, out) ==
    /\ Len(out) = Len(p) + 4 * Cardinality(F)
    /\ \A j \in 1..Len(p) :
          (\A i \in F : j < i \/ j > i + 2)
             => out[j + 4 * Cardinality({i \in F : i + 2 < j})] = p[j]

\* C23: a transform keeps the length (Coltrane: grows it by four per
\* window), changes a chord only inside a matched window, and changes it as
\* the transform says: tritone moves the root of the dominant by 6 and keeps
\* the quality, backdoor replaces the dominant of the pair only.
C23_OutsideUnchanged ==
    /\ pc = "tritone" =>
          /\ Len(chords) = Len(input)
          /\ \A i \in 1..Len(input) :
                \/ chords[i] = input[i]
                \/ /\ TritoneMatch(input, i)
                   /\ chords[i] = ChordSymbol((input[i].root + 6) % 12,
                                              input[i].quality)
    /\ pc = "backdoor" =>
          /\ Len(chords) = Len(input)
          /\ \A i \in 1..Len(input) :
                \/ chords[i] = input[i]
                \/ BackdoorMatch(input, i)
    /\ pc = "coltrane" =>
          OutsideKept(input,
                      {i \in 1..Len(input) :
                          gate.first[i] /\ ColtraneMatch(input, i)},
                      chords)

\* A ii-V-I after a chord that belongs to no window: the window is expanded
\* and the chord before it stays first.
C23_Witness ==
    /\ pc = "coltrane"
    /\ input = <<C7, Dm7, G7, Cmaj7>>
    /\ gate.first[2]
    /\ Len(chords) = 8
    /\ chords[1] = C7

\* C24: in a second application of a transform to its own output, a
\* position whose precondition does not hold in that output keeps its chord,
\* whatever the draws.
C24_SecondApplication ==
    /\ pc = "tritone2" =>
          /\ Len(chords) = Len(substituted)
          /\ \A i \in 1..Len(substituted) :
                ~TritoneMatch(substituted, i) => chords[i] = substituted[i]
    /\ pc = "backdoor2" =>
          /\ Len(chords) = Len(substituted)
          /\ \A i \in 1..Len(substituted) :
                ~BackdoorMatch(substituted, i) => chords[i] = substituted[i]
    /\ pc = "coltrane2" =>
          OutsideKept(substituted,
                      {i \in 1..Len(substituted) :
                          gate.second[i] /\ ColtraneMatch(substituted, i)},
                      chords)

\* G7 before Cmaj7 became Db7; the second application draws on Db7, the
\* draw passes and Db7 stays.
C24_Witness ==
    /\ pc = "tritone2"
    /\ input = <<G7, Cmaj7>>
    /\ substituted = <<Db7, Cmaj7>>
    /\ gate.second[1]
    /\ chords = <<Db7, Cmaj7>>


\* C25: adjustLength returns exactly length chords: the first length of the
\* derived chords, or all of them followed by padding in which every chord
\* is the tonic major seventh of the key, a ii directly followed by its V,
\* or a V directly after its ii.
C25_Padding ==
    pc = "adjusted" =>
        LET n == Len(input)
            tonic == ChordSymbol(key % 12, "MAJ7")
            ii == ChordSymbol((key + 2) % 12, "MIN7")
            v == ChordSymbol((key + 7) % 12, "DOM7")
        IN /\ Len(chords) = length
           /\ IF n >= length
              THEN chords = SubSeq(input, 1, length)
              ELSE /\ SubSeq(chords, 1, n) = input
                   /\ \A j \in (n + 1)..length :
                         \/ chords[j] = tonic
                         \/ chords[j] = ii /\ j + 1 <= length /\ chords[j + 1] = v
                         \/ chords[j] = v /\ j - 1 > n /\ chords[j - 1] = ii

\* One derived chord padded to three by a turnaround in Bb.
C25_Witness ==
    /\ pc = "adjusted"
    /\ Len(input) = 1
    /\ length = 3
    /\ key = 10
    /\ chords[2] = ChordSymbol(0, "MIN7")
    /\ chords[3] = ChordSymbol(5, "DOM7")


CircularDistance(a, b) ==
    CHOOSE d \in 0..11 :
        /\ (a + d) % 12 = b \/ (b + d) % 12 = a
        /\ \A e \in 0..(d - 1) : (a + e) % 12 # b /\ (b + e) % 12 # a

\* C30: voiceLeadingCost is symmetric in its two chords, each distance
\* between guide tones is the minimal circular distance and lies in 0..6,
\* and the cost is at most 12.
C30_SymmetricBounded ==
    pc = "cost" =>
        /\ cost = voiceLeadingCost(input[2], input[1])
        /\ cost \in 0..12
        /\ \A a \in {third(input[1]), seventh(input[1])},
              b \in {third(input[2]), seventh(input[2])} :
                /\ minInterval(a, b) = CircularDistance(a, b)
                /\ minInterval(a, b) \in 0..6

\* Two different chords whose thirds lie a tritone apart.
C30_Witness ==
    /\ pc = "cost"
    /\ input[1] # input[2]
    /\ minInterval(third(input[1]), third(input[2])) = 6
    /\ cost > 0


\* C26: every pending call of derive is at most maxDepth + 1 levels below
\* the start symbol, a non-terminal (which always gets a child) at most
\* maxDepth levels, with maxDepth <= 6 for every length; the optimizer of a
\* generate call runs at most its 50 scans and exactly one when the first
\* scan finds no improvement.
C26_Bounded ==
    /\ \A i \in 1..Len(stack) :
          /\ stack[i].depth <= maxDepth + 1
          /\ stack[i].sym.kind = "NT" => stack[i].depth <= maxDepth
    /\ maxDepth <= 6
    /\ \A len \in 0..MaxLongLength : StyleEngine_maxDepth(len) <= 6
    /\ (pc = "done" /\ style.extensionLevel > 50) =>
          /\ VoiceLeadingOptimizer_scans(substituted, 50) <= 50
          /\ firstImprovement(substituted, 1) = substituted =>
                 VoiceLeadingOptimizer_scans(substituted, 50) = 1

\* A derivation that reached the deepest level allowed.
C26_Witness ==
    /\ pc = "derive"
    /\ stack # << >>
    /\ Head(stack).depth = maxDepth + 1


\* C27: suggestConnectingChord returns none when the direct cost is at most
\* 2 or none of the three candidates costs less than the direct move;
\* otherwise it returns one of the three whose two-hop cost is below the
\* direct cost and is the least of the three.
C27_BestCandidate ==
    pc = "suggested" =>
        LET c1 == input[1]
            c2 == input[2]
            direct == voiceLeadingCost(c1, c2)
            three == {ChordSymbol((c1.root + 1) % 12, "DIM7"),
                      ChordSymbol((c2.root + 7) % 12, "DOM7"),
                      ChordSymbol((c2.root + 2) % 12, "MIN7")}
            hop(c) == voiceLeadingCost(c1, c) + voiceLeadingCost(c, c2)
        IN IF direct <= 2 \/ \A c \in three : hop(c) >= direct
           THEN chords = NoChord
           ELSE /\ Len(chords) = 1
                /\ chords[1] \in three
                /\ hop(chords[1]) < direct
                /\ \A c \in three : hop(chords[1]) <= hop(c)

\* A rough transition for which a candidate costs exactly the direct move
\* and none costs less: no chord is suggested.
C27_Witness ==
    /\ pc = "suggested"
    /\ voiceLeadingCost(input[1], input[2]) > 2
    /\ chords = NoChord
    /\ costVia(input[1],
               ChordSymbol((input[2].root + 7) % 12, "DOM7"),
               input[2]) = voiceLeadingCost(input[1], input[2])

====
